---- MODULE Spec2Model ----
(***************************************************************************)
(* The expression engine of rippledoc: the Module facade (a tree of named  *)
(* scopes compiled in one step), the three-phase expression lifecycle      *)
(* (UnboundExpression -> DependentExpression -> Expression) and the        *)
(* dependency-order Resolver with its cycle detection.                     *)
(*                                                                         *)
(* A module is identified by its position in the order of creation.  An    *)
(* expression is identified by the pair <<module, name>> under which its   *)
(* UnboundExpression is registered.  The DependentExpression and the       *)
(* Expression that an UnboundExpression produces are reached from it only  *)
(* (.dependentExpression, .expression), so the three wrappers share the    *)
(* identifier and differ in the field that holds the AST.                  *)
(*                                                                         *)
(* A call that throws before it has changed anything leaves every          *)
(* variable as it was.  What a call would throw in the current state is    *)
(* given by an operator (compileError, addExpressionError, ...), and the   *)
(* action of the operation is enabled exactly when that operator says      *)
(* ErrNone.                                                                *)
(***************************************************************************)
EXTENDS Integers, Sequences, FiniteSets, TLC

(***************************************************************************)
(* Bounds of the model.                                                    *)
(***************************************************************************)
MaxModules == 2

MaxExprs == 1

MaxMaps == 1

MaxScopeExprs == 3

MaxAliasNames == 4

MaxLifeExprs == 3

MaxEvaluations == 2

MaxBatch == 3

MaxCallExprs == 2

MaxContexts == 1

MaxRegistrations == 3

MaxSource == 3

MaxFormula == 5

MaxText == 2

MaxTreeExprs == 2

(***************************************************************************)
(* Inputs.  A name is a sequence of identifier parts.  An expression text  *)
(* is represented by the name references it contains, left to right; the   *)
(* empty sequence is a text without references (a literal such as "1").    *)
(***************************************************************************)
Names == {"a", "b"}

MappedNames == {"m"}

Texts == { <<>>,
           << <<"a">> >>,
           << <<"m", "a">> >> }

BatchNames == {"a", "b", "c", "d"}

BatchTexts == { <<>>,
                << <<"a">> >>,
                << <<"b">> >>,
                << <<"c">> >>,
                << <<"a">>, <<"b">> >> }

None == <<>>

Some(x) == <<x>>

(***************************************************************************)
(* Error messages of the source.                                           *)
(***************************************************************************)
ErrNone == "none"

ErrAlreadyCompiled == "Module is already compiled"

ErrOnlyRoot == "Only the root module can be compiled"

ErrAddSubModule == "addSubModule: Cannot add a submodule to a compiled module"

ErrCannotModify == "Cannot modify a compiled module"

ErrNameExists == "Expression with name already exists in this module"

ErrCommonAncestor == "Mapped module must share a common ancestor with this module"

ErrNotYetBound == "Expression not yet bound"

ErrNotResolvedYet == "Expression not resolved yet"

ErrAlreadyBound == "Expression already bound"

ErrRebound == "LinkedNameExpression cannot be rebound"

ErrUnresolvedName == "Unresolved name"

ErrNotAnObject == "is not an object"

ErrAlreadyResolved == "Already resolved"

ErrUnresolvedDependencies == "Unresolved dependencies exist"

ErrCircular == "Circular dependency detected among expressions."

ErrNoDependentExpressions == "No dependent expressions provided."

ErrNameRequired == "Name required"

ErrDuplicateSymbol == "Duplicate symbol"

ErrDuplicateSubcontext == "Duplicate subcontext"

VARIABLES
  parent,               \* Module.parent of each module, 0 for null
  compiled,             \* Module.compiled of each module
  subModules,           \* Module.subModules of each module
  names,                \* Module.names of each module, in insertion order
  exprs,                \* the expression objects, by identifier
  pc,                   \* position of the running compile(): idle, bind, loop, scan
  todo,                 \* bindExpressions: the expressions still to bind
  dependentExpressions, \* the list handed to resolveExpressions
  resolvedExpressions,  \* resolveExpressions: the output list
  j,                    \* resolveExpressions: outer loop index
  i,                    \* resolveExpressions: inner loop index
  madeProgress,         \* resolveExpressions: progress flag of the pass
  unresolvedCount,      \* resolveExpressions: unresolved counter of the pass
  passes,               \* resolveExpressions: number of passes started
  outcome,              \* per module: how compile() on it ended
  evaluations,          \* per expression: number of evaluate() calls made on it
  calls,                \* per native expression: number of invocations of its callback
  parent_,              \* DefaultBindingContext.parent_ of each context, 0 for null
  symbols_,             \* DefaultBindingContext.symbols_ of each context
  subcontexts_,         \* DefaultBindingContext.subcontexts_ of each context
  source,               \* Lexer.source, a sequence of characters
  pos,                  \* Lexer.pos
  token,                \* the token returned by the last nextToken()
  parseResult,          \* the outcome of parseExpression(source)
  result,               \* the outcome of parse, bind, resolve and evaluate of source
  argument              \* the argument of the last direct resolveExpressions call

vars == << parent, compiled, subModules, names, exprs, pc, todo,
           dependentExpressions, resolvedExpressions, j, i, madeProgress,
           unresolvedCount, passes, outcome, evaluations, calls,
           parent_, symbols_, subcontexts_, source, pos, token, parseResult,
           result, argument >>

evalVars == << evaluations, calls >>

contextVars == << parent_, symbols_, subcontexts_ >>

lexerVars == << source, pos, token, parseResult, result >>

callVars == << argument >>

apiVars == << evalVars, contextVars, lexerVars, callVars >>

moduleVars == << parent, compiled, subModules, names >>

resolverVars == << dependentExpressions, resolvedExpressions, j, i,
                   madeProgress, unresolvedCount, passes >>

Modules == 1..Len(parent)

Exprs == DOMAIN exprs

(***************************************************************************)
(* AST nodes.  An AST is the sequence of its leaves, left to right; the    *)
(* operators between them only matter to evaluate().                       *)
(***************************************************************************)
NumberLiteral == [kind |-> "number", parts |-> <<>>, link |-> None, linkedExpression_ |-> None]

NativeFunctionNode == [kind |-> "native", parts |-> <<>>, link |-> None, linkedExpression_ |-> None]

NameExpression(parts) == [kind |-> "name", parts |-> parts, link |-> None, linkedExpression_ |-> None]

LinkedNameExpression(e) == [kind |-> "linked", parts |-> <<>>, link |-> Some(e), linkedExpression_ |-> None]

ResolvedNameExpression(e) == [kind |-> "resolved", parts |-> <<>>, link |-> Some(e), linkedExpression_ |-> None]

parseExpression(text) ==
  IF text = <<>> THEN << NumberLiteral >>
  ELSE [k \in 1..Len(text) |-> NameExpression(text[k])]

createNativeExpression == << NativeFunctionNode >>

UnboundExpression(root) ==
  [root |-> Some(root), isBound |-> FALSE, ast_ |-> None,
   dependencies_ |-> None, expression_ |-> None]

(***************************************************************************)
(* Module: name table and tree helpers.                                    *)
(***************************************************************************)
NameEntry(name, type, value) == [name |-> name, type |-> type, value |-> value]

namesHas(m, name) == \E k \in 1..Len(names[m]) : names[m][k].name = name

namesGet(m, name) ==
  names[m][CHOOSE k \in 1..Len(names[m]) : names[m][k].name = name]

RECURSIVE rootModule(_)
rootModule(m) == IF parent[m] = 0 THEN m ELSE rootModule(parent[m])

RECURSIVE Ancestors(_)
Ancestors(m) == IF parent[m] = 0 THEN {m} ELSE {m} \cup Ancestors(parent[m])

\* hasCommonAncestor without the climb from the other module.
hasCommonAncestorOneWay(m, other) == other \in Ancestors(m)

RECURSIVE hasCommonAncestor(_, _)
hasCommonAncestor(m, other) ==
  IF other \in Ancestors(m) THEN TRUE
  ELSE IF parent[other] = 0 THEN FALSE
  ELSE hasCommonAncestor(m, parent[other])

NumMaps ==
  LET RECURSIVE Count(_)
      Count(m) == IF m = 0 THEN 0
                  ELSE Len(SelectSeq(names[m], LAMBDA en : en.type = "OBJECT")) + Count(m - 1)
  IN Count(Len(parent))

Owner(e) == e[1]

(***************************************************************************)
(* Module.lookupName: the binding context of module m.                     *)
(***************************************************************************)
Found(e) == [ok |-> TRUE, expr |-> Some(e), err |-> ErrNone]

Failed(err) == [ok |-> FALSE, expr |-> None, err |-> err]

\* lookupName that asks the parent before the module's own table.
RECURSIVE lookupNameParentFirst(_, _)
lookupNameParentFirst(m, parts) ==
  LET head == Head(parts)
      rest == Tail(parts)
      has == namesHas(m, head)
      up == lookupNameParentFirst(parent[m], parts)
  IN IF parent[m] # 0 /\ up.ok THEN up
     ELSE IF rest = <<>>
     THEN IF has /\ namesGet(m, head).type = "VALUE"
          THEN Found(namesGet(m, head).value)
          ELSE Failed(ErrUnresolvedName)
     ELSE IF has /\ namesGet(m, head).type = "OBJECT"
          THEN lookupNameParentFirst(namesGet(m, head).value, rest)
          ELSE Failed(ErrNotAnObject)

\* lookupName that looks the rest of a dotted name up in the module itself
\* instead of the module mapped under the head.
RECURSIVE lookupNameIgnoresAlias(_, _)
lookupNameIgnoresAlias(m, parts) ==
  LET head == Head(parts)
      rest == Tail(parts)
      has == namesHas(m, head)
  IN IF rest = <<>>
     THEN IF has /\ namesGet(m, head).type = "VALUE"
          THEN Found(namesGet(m, head).value)
          ELSE IF parent[m] # 0
               THEN lookupNameIgnoresAlias(parent[m], parts)
               ELSE Failed(ErrUnresolvedName)
     ELSE IF has /\ namesGet(m, head).type = "OBJECT"
          THEN lookupNameIgnoresAlias(m, rest)
          ELSE IF parent[m] # 0
               THEN lookupNameIgnoresAlias(parent[m], parts)
               ELSE Failed(ErrNotAnObject)

\* lookupName that dereferences the expression it finds: it fails while that
\* expression is not bound.
RECURSIVE lookupNameDereferences(_, _)
lookupNameDereferences(m, parts) ==
  LET head == Head(parts)
      rest == Tail(parts)
      has == namesHas(m, head)
  IN IF rest = <<>>
     THEN IF has /\ namesGet(m, head).type = "VALUE"
          THEN IF exprs[namesGet(m, head).value].isBound
               THEN Found(namesGet(m, head).value)
               ELSE Failed(ErrNotYetBound)
          ELSE IF parent[m] # 0
               THEN lookupNameDereferences(parent[m], parts)
               ELSE Failed(ErrUnresolvedName)
     ELSE IF has /\ namesGet(m, head).type = "OBJECT"
          THEN lookupNameDereferences(namesGet(m, head).value, rest)
          ELSE IF parent[m] # 0
               THEN lookupNameDereferences(parent[m], parts)
               ELSE Failed(ErrNotAnObject)

RECURSIVE lookupName(_, _)
lookupName(m, parts) ==
  LET head == Head(parts)
      rest == Tail(parts)
      has == namesHas(m, head)
  IN IF rest = <<>>
     THEN IF has /\ namesGet(m, head).type = "VALUE"
          THEN Found(namesGet(m, head).value)
          ELSE IF parent[m] # 0
               THEN lookupName(parent[m], parts)
               ELSE Failed(ErrUnresolvedName)
     ELSE IF has /\ namesGet(m, head).type = "OBJECT"
          THEN lookupName(namesGet(m, head).value, rest)
          ELSE IF parent[m] # 0
               THEN lookupName(parent[m], parts)
               ELSE Failed(ErrNotAnObject)

(***************************************************************************)
(* Module.bindExpressions: the expressions of the subtree of m in the      *)
(* order in which they are bound, each with the module whose lookupName    *)
(* is its binding context.                                                 *)
(***************************************************************************)
\* bindExpressions that leaves out the submodules.
bindExpressionsOwnOnly(m) ==
  LET values == SelectSeq(names[m], LAMBDA en : en.type = "VALUE")
  IN [k \in 1..Len(values) |-> [expr |-> values[k].value, module |-> m]]

RECURSIVE bindExpressions(_)
bindExpressions(m) ==
  LET values == SelectSeq(names[m], LAMBDA en : en.type = "VALUE")
      own == [k \in 1..Len(values) |-> [expr |-> values[k].value, module |-> m]]
      RECURSIVE subs(_)
      subs(k) == IF k > Len(subModules[m]) THEN <<>>
                 ELSE bindExpressions(subModules[m][k]) \o subs(k + 1)
  IN own \o subs(1)

(***************************************************************************)
(* AstNode.bind of one leaf, and UnboundExpression.bind of a whole         *)
(* expression against the context of module m.  The leaves are bound left  *)
(* to right and each bound leaf is stored in its parent node before the    *)
(* next is tried, so a failing bind leaves the leaves before the failing   *)
(* one linked.                                                             *)
(***************************************************************************)
bindNode(node, m) ==
  IF node.kind = "name"
  THEN LET l == lookupName(m, node.parts)
       IN IF l.ok THEN [ok |-> TRUE, node |-> LinkedNameExpression(l.expr[1]), err |-> ErrNone]
          ELSE [ok |-> FALSE, node |-> node, err |-> l.err]
  ELSE IF node.kind \in {"linked", "resolved"}
  THEN [ok |-> FALSE, node |-> node, err |-> ErrRebound]
  ELSE [ok |-> TRUE, node |-> node, err |-> ErrNone]

bindAst(ast, m) ==
  LET bad == {k \in 1..Len(ast) : ~bindNode(ast[k], m).ok}
      first == IF bad = {} THEN 0 ELSE CHOOSE k \in bad : \A l \in bad : k <= l
  IN [ok |-> bad = {},
      err |-> IF bad = {} THEN ErrNone ELSE bindNode(ast[first], m).err,
      ast |-> [k \in 1..Len(ast) |->
                 IF bad = {} \/ (k < first /\ Len(ast) > 1)
                 THEN bindNode(ast[k], m).node ELSE ast[k]]]

bind(e, m) ==
  IF exprs[e].root = None
  THEN [ok |-> FALSE, err |-> ErrAlreadyBound, expr |-> exprs[e]]
  ELSE LET b == bindAst(exprs[e].root[1], m)
       IN IF b.ok
          THEN [ok |-> TRUE, err |-> ErrNone,
                expr |-> [exprs[e] EXCEPT !.root = None, !.isBound = TRUE,
                                          !.ast_ = Some(b.ast)]]
          ELSE [ok |-> FALSE, err |-> b.err,
                expr |-> [exprs[e] EXCEPT !.root = Some(b.ast)]]

(***************************************************************************)
(* DependentExpression: isResolved, the lazy dependency discovery of       *)
(* hasUnresolvedDependencies, and resolve.                                 *)
(***************************************************************************)
isResolved(e) == exprs[e].expression_ # None

getDependencies(ast) ==
  LET linked == SelectSeq(ast, LAMBDA n : n.kind = "linked")
  IN [k \in 1..Len(linked) |-> linked[k].link[1]]

ensureLink(node) ==
  IF node.kind = "linked" /\ node.linkedExpression_ = None
  THEN [node EXCEPT !.linkedExpression_ = node.link]
  ELSE node

\* An accessor that hands back the empty field of an unbound wrapper without
\* throwing.
linkThrowsNever(e) == FALSE

linkThrows(e) ==
  /\ exprs[e].dependencies_ = None
  /\ \E k \in 1..Len(exprs[e].ast_[1]) :
       LET n == exprs[e].ast_[1][k]
       IN n.kind = "linked" /\ n.linkedExpression_ = None /\ ~exprs[n.link[1]].isBound

partlyLinked(e) ==
  LET ast == exprs[e].ast_[1]
      bad == { k \in 1..Len(ast) :
                 /\ ast[k].kind = "linked"
                 /\ ast[k].linkedExpression_ = None
                 /\ ~exprs[ast[k].link[1]].isBound }
      first == CHOOSE k \in bad : \A l \in bad : k <= l
  IN [exprs[e] EXCEPT
        !.ast_ = Some([k \in 1..Len(ast) |-> IF k < first THEN ensureLink(ast[k]) ELSE ast[k]])]

Dependencies(e) ==
  IF exprs[e].dependencies_ # None THEN exprs[e].dependencies_[1]
  ELSE getDependencies(exprs[e].ast_[1])

\* hasUnresolvedDependencies looking at the first dependency only.
hasUnresolvedDependenciesFirstOnly(e) ==
  /\ Len(Dependencies(e)) > 0
  /\ ~isResolved(Dependencies(e)[1])

hasUnresolvedDependencies(e) ==
  \E k \in 1..Len(Dependencies(e)) : ~isResolved(Dependencies(e)[k])

discovered(e) ==
  IF exprs[e].dependencies_ # None THEN exprs[e]
  ELSE [exprs[e] EXCEPT
          !.dependencies_ = Some(getDependencies(exprs[e].ast_[1])),
          !.ast_ = Some([k \in 1..Len(exprs[e].ast_[1]) |-> ensureLink(exprs[e].ast_[1][k])])]

resolveNode(node) ==
  IF node.kind = "linked" THEN ResolvedNameExpression(node.link[1]) ELSE node

resolve(e) ==
  LET d == discovered(e)
  IN [d EXCEPT !.expression_ = Some([k \in 1..Len(d.ast_[1]) |-> resolveNode(d.ast_[1][k])]),
               !.ast_ = None]

(***************************************************************************)
(* The public operations of Module.                                        *)
(***************************************************************************)
createRootModule ==
  /\ pc = "idle"
  /\ parent' = Append(parent, 0)
  /\ compiled' = Append(compiled, FALSE)
  /\ subModules' = Append(subModules, <<>>)
  /\ names' = Append(names, <<>>)
  /\ outcome' = Append(outcome, "open")
  /\ UNCHANGED << exprs, pc, todo, resolverVars >>
  /\ UNCHANGED apiVars

addSubModuleError(m) ==
  IF compiled[m] THEN ErrAddSubModule ELSE ErrNone

addSubModule(m) ==
  /\ pc = "idle"
  /\ addSubModuleError(m) = ErrNone
  /\ parent' = Append(parent, m)
  /\ compiled' = Append(compiled, FALSE)
  /\ subModules' = Append([subModules EXCEPT ![m] = Append(@, Len(parent) + 1)], <<>>)
  /\ names' = Append(names, <<>>)
  /\ outcome' = Append(outcome, "open")
  /\ UNCHANGED << exprs, pc, todo, resolverVars >>
  /\ UNCHANGED apiVars

\* assertNotCompiled without its check.
assertNotCompiledNoCheck(m) == TRUE

assertNotCompiled(m) == ~compiled[m]

addExpressionError(m, name) ==
  IF ~assertNotCompiled(m) THEN ErrCannotModify
  ELSE IF namesHas(m, name) THEN ErrNameExists
  ELSE ErrNone

addNativeExpressionError(m, name) ==
  IF ~assertNotCompiled(m) THEN ErrCannotModify
  ELSE IF namesHas(m, name) THEN ErrNameExists
  ELSE ErrNone

register(m, name, root) ==
  /\ exprs' = exprs @@ (<<m, name>> :> UnboundExpression(root))
  /\ names' = [names EXCEPT ![m] = Append(@, NameEntry(name, "VALUE", <<m, name>>))]
  /\ UNCHANGED << parent, compiled, subModules, pc, todo, resolverVars, outcome >>
  /\ UNCHANGED apiVars

addExpression(m, name, text) ==
  /\ pc = "idle"
  /\ addExpressionError(m, name) = ErrNone
  /\ register(m, name, parseExpression(text))

addNativeExpression(m, name) ==
  /\ pc = "idle"
  /\ addNativeExpressionError(m, name) = ErrNone
  /\ register(m, name, createNativeExpression)

mapModuleError(m, name, other) ==
  IF ~assertNotCompiled(m) THEN ErrCannotModify
  ELSE IF namesHas(m, name) THEN ErrNameExists
  ELSE IF ~hasCommonAncestor(m, other) THEN ErrCommonAncestor
  ELSE ErrNone

mapModule(m, name, other) ==
  /\ pc = "idle"
  /\ mapModuleError(m, name, other) = ErrNone
  /\ names' = [names EXCEPT ![m] = Append(@, NameEntry(name, "OBJECT", other))]
  /\ UNCHANGED << parent, compiled, subModules, exprs, pc, todo, resolverVars, outcome >>
  /\ UNCHANGED apiVars

(***************************************************************************)
(* The closure returned by addExpression / addNativeExpression for the     *)
(* expression e: what a call of it throws, and what it returns.            *)
(***************************************************************************)
accessorError(e) ==
  IF ~exprs[e].isBound THEN ErrNotYetBound
  ELSE IF ~isResolved(e) THEN ErrNotResolvedYet
  ELSE ErrNone

accessor(e) == e

(***************************************************************************)
(* Module.compile, in the steps of its execution.  outcome[m] is "open"    *)
(* until compile() is called on m with success of its two checks,          *)
(* "running" while it executes, "returned" when it has returned normally,  *)
(* and otherwise the message of the error it threw.                        *)
(***************************************************************************)
\* compile() without the check of the parent.
compileErrorNoParentCheck(m) ==
  IF compiled[m] THEN ErrAlreadyCompiled ELSE ErrNone

compileError(m) ==
  IF compiled[m] THEN ErrAlreadyCompiled
  ELSE IF parent[m] # 0 THEN ErrOnlyRoot
  ELSE ErrNone

Compiling == CHOOSE m \in Modules : outcome[m] = "running"

Return(err) ==
  /\ pc' = "idle"
  /\ outcome' = [outcome EXCEPT ![Compiling] = IF err = ErrNone THEN "returned" ELSE err]

\* compile() that does not set the flag before binding and resolution.
compileFlagNotSet(m) ==
  /\ pc = "idle"
  /\ compileError(m) = ErrNone
  /\ pc' = "bind"
  /\ todo' = bindExpressions(m)
  /\ dependentExpressions' = <<>>
  /\ outcome' = [outcome EXCEPT ![m] = "running"]
  /\ UNCHANGED << parent, compiled, subModules, names, exprs, resolvedExpressions,
                  j, i, madeProgress, unresolvedCount, passes >>
  /\ UNCHANGED apiVars

compile(m) ==
  /\ pc = "idle"
  /\ compileError(m) = ErrNone
  /\ compiled' = [compiled EXCEPT ![m] = TRUE]
  /\ pc' = "bind"
  /\ todo' = bindExpressions(m)
  /\ dependentExpressions' = <<>>
  /\ outcome' = [outcome EXCEPT ![m] = "running"]
  /\ UNCHANGED << parent, subModules, names, exprs, resolvedExpressions,
                  j, i, madeProgress, unresolvedCount, passes >>
  /\ UNCHANGED apiVars

\* The bind loop of compile() that discovers the dependencies of each expression
\* as soon as it is bound.
bindStepDiscovers ==
  /\ pc = "bind"
  /\ IF todo = <<>>
     THEN /\ pc' = "loop"
          /\ resolvedExpressions' = <<>>
          /\ passes' = 0
          /\ j' = 0
          /\ i' = 0
          /\ madeProgress' = FALSE
          /\ unresolvedCount' = 0
          /\ UNCHANGED << moduleVars, exprs, todo, dependentExpressions, outcome >>
     ELSE LET b == bind(Head(todo).expr, Head(todo).module)
          IN /\ exprs' = [exprs EXCEPT ![Head(todo).expr] =
                            IF b.ok
                            THEN [b.expr EXCEPT
                                    !.dependencies_ = Some(getDependencies(b.expr.ast_[1]))]
                            ELSE b.expr]
             /\ todo' = Tail(todo)
             /\ IF b.ok
                THEN /\ dependentExpressions' = Append(dependentExpressions, Head(todo).expr)
                     /\ UNCHANGED << pc, outcome >>
                ELSE /\ Return(b.err)
                     /\ UNCHANGED dependentExpressions
             /\ UNCHANGED << moduleVars, resolvedExpressions, j, i, madeProgress,
                             unresolvedCount, passes >>
  /\ UNCHANGED apiVars

bindStep ==
  /\ pc = "bind"
  /\ IF todo = <<>>
     THEN /\ pc' = "loop"
          /\ resolvedExpressions' = <<>>
          /\ passes' = 0
          /\ j' = 0
          /\ i' = 0
          /\ madeProgress' = FALSE
          /\ unresolvedCount' = 0
          /\ UNCHANGED << moduleVars, exprs, todo, dependentExpressions, outcome >>
     ELSE LET b == bind(Head(todo).expr, Head(todo).module)
          IN /\ exprs' = [exprs EXCEPT ![Head(todo).expr] = b.expr]
             /\ todo' = Tail(todo)
             /\ IF b.ok
                THEN /\ dependentExpressions' = Append(dependentExpressions, Head(todo).expr)
                     /\ UNCHANGED << pc, outcome >>
                ELSE /\ Return(b.err)
                     /\ UNCHANGED dependentExpressions
             /\ UNCHANGED << moduleVars, resolvedExpressions, j, i, madeProgress,
                             unresolvedCount, passes >>
  /\ UNCHANGED apiVars

(***************************************************************************)
(* resolveExpressions.                                                     *)
(***************************************************************************)
\* The outer loop with the bound j <= length in place of j < length.
loopHeadInclusive ==
  /\ pc = "loop"
  /\ IF j <= Len(dependentExpressions)
     THEN /\ pc' = "scan"
          /\ madeProgress' = FALSE
          /\ unresolvedCount' = 0
          /\ passes' = passes + 1
          /\ i' = 0
          /\ UNCHANGED outcome
     ELSE /\ Return(ErrNone)
          /\ UNCHANGED << madeProgress, unresolvedCount, passes, i >>
  /\ UNCHANGED << moduleVars, exprs, todo, dependentExpressions, resolvedExpressions, j >>
  /\ UNCHANGED apiVars

loopHead ==
  /\ pc = "loop"
  /\ IF j < Len(dependentExpressions)
     THEN /\ pc' = "scan"
          /\ madeProgress' = FALSE
          /\ unresolvedCount' = 0
          /\ passes' = passes + 1
          /\ i' = 0
          /\ UNCHANGED outcome
     ELSE /\ Return(ErrNone)
          /\ UNCHANGED << madeProgress, unresolvedCount, passes, i >>
  /\ UNCHANGED << moduleVars, exprs, todo, dependentExpressions, resolvedExpressions, j >>
  /\ UNCHANGED apiVars

\* A scan that resolves at most one expression in a pass.
scanStepOnePerPass ==
  /\ pc = "scan"
  /\ i < Len(dependentExpressions)
  /\ LET de == dependentExpressions[i + 1]
     IN IF isResolved(de)
        THEN /\ i' = i + 1
             /\ UNCHANGED << exprs, resolvedExpressions, madeProgress, unresolvedCount,
                             pc, outcome >>
        ELSE IF linkThrows(de)
        THEN /\ Return(ErrNotYetBound)
             /\ exprs' = [exprs EXCEPT ![de] = partlyLinked(de)]
             /\ unresolvedCount' = unresolvedCount + 1
             /\ UNCHANGED << resolvedExpressions, madeProgress, i >>
        ELSE IF hasUnresolvedDependencies(de) \/ madeProgress
        THEN /\ exprs' = [exprs EXCEPT ![de] = discovered(de)]
             /\ unresolvedCount' = unresolvedCount + 1
             /\ i' = i + 1
             /\ UNCHANGED << resolvedExpressions, madeProgress, pc, outcome >>
        ELSE /\ exprs' = [exprs EXCEPT ![de] = resolve(de)]
             /\ resolvedExpressions' = Append(resolvedExpressions, de)
             /\ madeProgress' = TRUE
             /\ i' = i + 1
             /\ UNCHANGED << unresolvedCount, pc, outcome >>
  /\ UNCHANGED << moduleVars, todo, dependentExpressions, j, passes >>
  /\ UNCHANGED apiVars

\* A scan that puts a resolved expression at the front of the output.
scanStepPrepends ==
  /\ pc = "scan"
  /\ i < Len(dependentExpressions)
  /\ LET de == dependentExpressions[i + 1]
     IN IF isResolved(de)
        THEN /\ i' = i + 1
             /\ UNCHANGED << exprs, resolvedExpressions, madeProgress, unresolvedCount,
                             pc, outcome >>
        ELSE IF linkThrows(de)
        THEN /\ Return(ErrNotYetBound)
             /\ exprs' = [exprs EXCEPT ![de] = partlyLinked(de)]
             /\ unresolvedCount' = unresolvedCount + 1
             /\ UNCHANGED << resolvedExpressions, madeProgress, i >>
        ELSE IF hasUnresolvedDependencies(de)
        THEN /\ exprs' = [exprs EXCEPT ![de] = discovered(de)]
             /\ unresolvedCount' = unresolvedCount + 1
             /\ i' = i + 1
             /\ UNCHANGED << resolvedExpressions, madeProgress, pc, outcome >>
        ELSE /\ exprs' = [exprs EXCEPT ![de] = resolve(de)]
             /\ resolvedExpressions' = << de >> \o resolvedExpressions
             /\ madeProgress' = TRUE
             /\ i' = i + 1
             /\ UNCHANGED << unresolvedCount, pc, outcome >>
  /\ UNCHANGED << moduleVars, todo, dependentExpressions, j, passes >>
  /\ UNCHANGED apiVars

scanStep ==
  /\ pc = "scan"
  /\ i < Len(dependentExpressions)
  /\ LET de == dependentExpressions[i + 1]
     IN IF isResolved(de)
        THEN /\ i' = i + 1
             /\ UNCHANGED << exprs, resolvedExpressions, madeProgress, unresolvedCount,
                             pc, outcome >>
        ELSE IF linkThrows(de)
        THEN /\ Return(ErrNotYetBound)
             /\ exprs' = [exprs EXCEPT ![de] = partlyLinked(de)]
             /\ unresolvedCount' = unresolvedCount + 1
             /\ UNCHANGED << resolvedExpressions, madeProgress, i >>
        ELSE IF hasUnresolvedDependencies(de)
        THEN /\ exprs' = [exprs EXCEPT ![de] = discovered(de)]
             /\ unresolvedCount' = unresolvedCount + 1
             /\ i' = i + 1
             /\ UNCHANGED << resolvedExpressions, madeProgress, pc, outcome >>
        ELSE /\ exprs' = [exprs EXCEPT ![de] = resolve(de)]
             /\ resolvedExpressions' = Append(resolvedExpressions, de)
             /\ madeProgress' = TRUE
             /\ i' = i + 1
             /\ UNCHANGED << unresolvedCount, pc, outcome >>
  /\ UNCHANGED << moduleVars, todo, dependentExpressions, j, passes >>
  /\ UNCHANGED apiVars

\* The end of a pass without the test of madeProgress.
passEndNoProgressTest ==
  /\ pc = "scan"
  /\ i = Len(dependentExpressions)
  /\ IF unresolvedCount = 0
     THEN /\ Return(ErrNone)
          /\ UNCHANGED j
     ELSE /\ pc' = "loop"
          /\ j' = j + 1
          /\ UNCHANGED outcome
  /\ UNCHANGED << moduleVars, exprs, todo, dependentExpressions, resolvedExpressions,
                  i, madeProgress, unresolvedCount, passes >>
  /\ UNCHANGED apiVars

\* The end of a pass that throws whenever an expression is left unresolved.
passEndThrowsOnUnresolved ==
  /\ pc = "scan"
  /\ i = Len(dependentExpressions)
  /\ IF unresolvedCount = 0
     THEN Return(ErrNone)
     ELSE Return(ErrCircular)
  /\ UNCHANGED << moduleVars, exprs, todo, dependentExpressions, resolvedExpressions,
                  j, i, madeProgress, unresolvedCount, passes >>
  /\ UNCHANGED apiVars

passEnd ==
  /\ pc = "scan"
  /\ i = Len(dependentExpressions)
  /\ IF unresolvedCount = 0
     THEN /\ Return(ErrNone)
          /\ UNCHANGED j
     ELSE IF ~madeProgress
     THEN /\ Return(ErrCircular)
          /\ UNCHANGED j
     ELSE /\ pc' = "loop"
          /\ j' = j + 1
          /\ UNCHANGED outcome
  /\ UNCHANGED << moduleVars, exprs, todo, dependentExpressions, resolvedExpressions,
                  i, madeProgress, unresolvedCount, passes >>
  /\ UNCHANGED apiVars

(***************************************************************************)
(* resolveExpressions called directly.  The argument is either an array of *)
(* DependentExpressions or a value that is no array (null); the call runs  *)
(* the same passes as the call compile() makes.                            *)
(***************************************************************************)
NullArgument == [isArray |-> FALSE, items |-> <<>>]

ArrayArgument(s) == [isArray |-> TRUE, items |-> s]

\* resolveExpressions without the test of Array.isArray: no array reads as no items.
resolveExpressionsNoArrayCheck(arg) ==
  /\ pc = "idle"
  /\ argument' = Some(arg)
  /\ pc' = "loop"
  /\ dependentExpressions' = arg.items
  /\ resolvedExpressions' = <<>>
  /\ passes' = 0
  /\ j' = 0
  /\ i' = 0
  /\ madeProgress' = FALSE
  /\ unresolvedCount' = 0
  /\ outcome' = [outcome EXCEPT ![1] = "running"]
  /\ UNCHANGED << moduleVars, exprs, todo, evalVars, contextVars, lexerVars >>

resolveExpressions(arg) ==
  /\ pc = "idle"
  /\ argument' = Some(arg)
  /\ IF ~arg.isArray
     THEN /\ outcome' = [outcome EXCEPT ![1] = ErrNoDependentExpressions]
          /\ UNCHANGED << pc, resolverVars >>
     ELSE /\ pc' = "loop"
          /\ dependentExpressions' = arg.items
          /\ resolvedExpressions' = <<>>
          /\ passes' = 0
          /\ j' = 0
          /\ i' = 0
          /\ madeProgress' = FALSE
          /\ unresolvedCount' = 0
          /\ outcome' = [outcome EXCEPT ![1] = "running"]
  /\ UNCHANGED << moduleVars, exprs, todo, evalVars, contextVars, lexerVars >>

(***************************************************************************)
(* The lifecycle methods called directly on the wrappers of an expression: *)
(* UnboundExpression.bind with the context of the module that registers    *)
(* the expression (the context bindExpressions passes),                    *)
(* DependentExpression.resolve and Expression.evaluate.  A call that       *)
(* throws keeps the assignments it made before the throw.                  *)
(***************************************************************************)
Count(f, x) == IF x \in DOMAIN f THEN f[x] ELSE 0

\* bind that forgets to give up the root.
bindCallKeepsRoot(e) ==
  /\ pc = "idle"
  /\ exprs' = [exprs EXCEPT ![e] =
                 IF bind(e, Owner(e)).ok
                 THEN [bind(e, Owner(e)).expr EXCEPT !.root = exprs[e].root]
                 ELSE bind(e, Owner(e)).expr]
  /\ UNCHANGED << moduleVars, pc, todo, resolverVars, outcome, apiVars >>

bindCall(e) ==
  /\ pc = "idle"
  /\ exprs' = [exprs EXCEPT ![e] = bind(e, Owner(e)).expr]
  /\ UNCHANGED << moduleVars, pc, todo, resolverVars, outcome, apiVars >>

resolveError(e) ==
  IF isResolved(e) THEN ErrAlreadyResolved
  ELSE IF linkThrows(e) THEN ErrNotYetBound
  ELSE IF hasUnresolvedDependencies(e) THEN ErrUnresolvedDependencies
  ELSE ErrNone

\* resolve without the test of the dependencies.
resolveCallUnchecked(e) ==
  /\ pc = "idle"
  /\ exprs[e].isBound
  /\ exprs' = [exprs EXCEPT ![e] =
                 IF isResolved(e) THEN exprs[e]
                 ELSE IF linkThrows(e) THEN partlyLinked(e)
                 ELSE resolve(e)]
  /\ UNCHANGED << moduleVars, pc, todo, resolverVars, outcome, apiVars >>

resolveCall(e) ==
  /\ pc = "idle"
  /\ exprs[e].isBound
  /\ exprs' = [exprs EXCEPT ![e] =
                 IF resolveError(e) = ErrAlreadyResolved THEN exprs[e]
                 ELSE IF resolveError(e) = ErrNotYetBound THEN partlyLinked(e)
                 ELSE IF resolveError(e) = ErrUnresolvedDependencies THEN discovered(e)
                 ELSE resolve(e)]
  /\ UNCHANGED << moduleVars, pc, todo, resolverVars, outcome, apiVars >>

RECURSIVE invocations(_, _)
invocations(e, n) ==
  LET ast == exprs[e].expression_[1]
      RECURSIVE sum(_)
      sum(k) == IF k = 0 THEN 0
                ELSE sum(k - 1) +
                     (IF ast[k].kind = "native" THEN (IF e = n THEN 1 ELSE 0)
                      ELSE IF ast[k].kind = "resolved" THEN invocations(ast[k].link[1], n)
                      ELSE 0)
  IN sum(Len(ast))

\* evaluate that keeps the value of the first call and answers later calls
\* from it.
evaluateCallMemoized(e) ==
  /\ pc = "idle"
  /\ isResolved(e)
  /\ evaluations' = (e :> Count(evaluations, e) + 1) @@ evaluations
  /\ calls' = IF Count(evaluations, e) > 0 THEN calls
              ELSE [n \in { x \in Exprs : invocations(e, x) > 0 } \cup DOMAIN calls |->
                      Count(calls, n) + invocations(e, n)]
  /\ UNCHANGED << moduleVars, exprs, pc, todo, resolverVars, outcome, contextVars, lexerVars, callVars >>

\* evaluate that throws the cached dependency list of the wrapper away.
evaluateCallDropsCache(e) ==
  /\ pc = "idle"
  /\ isResolved(e)
  /\ evaluations' = (e :> Count(evaluations, e) + 1) @@ evaluations
  /\ calls' = [n \in { x \in Exprs : invocations(e, x) > 0 } \cup DOMAIN calls |->
                 Count(calls, n) + invocations(e, n)]
  /\ exprs' = [exprs EXCEPT ![e].dependencies_ = None]
  /\ UNCHANGED << moduleVars, pc, todo, resolverVars, outcome, contextVars, lexerVars, callVars >>

evaluateCall(e) ==
  /\ pc = "idle"
  /\ isResolved(e)
  /\ evaluations' = (e :> Count(evaluations, e) + 1) @@ evaluations
  /\ calls' = [n \in { x \in Exprs : invocations(e, x) > 0 } \cup DOMAIN calls |->
                 Count(calls, n) + invocations(e, n)]
  /\ UNCHANGED << moduleVars, exprs, pc, todo, resolverVars, outcome, contextVars, lexerVars, callVars >>

(***************************************************************************)
(* DefaultBindingContext: the constructor and the two registrations.       *)
(* symbols_ maps a name to a map from NameType to the provider, an         *)
(* UnboundExpression; subcontexts_ maps a name to a context.               *)
(***************************************************************************)
Contexts == 1..Len(parent_)

DefaultBindingContext(p) ==
  /\ parent_' = Append(parent_, p)
  /\ symbols_' = Append(symbols_, <<>>)
  /\ subcontexts_' = Append(subcontexts_, <<>>)
  /\ UNCHANGED << moduleVars, exprs, pc, todo, resolverVars, outcome,
                  evalVars, lexerVars, callVars >>

symbolsHas(c, name, type) ==
  /\ name \in DOMAIN symbols_[c]
  /\ type \in DOMAIN symbols_[c][name]

\* addExpression that overwrites a registered (name, type) pair.
DefaultBindingContext_addExpressionErrorNoDuplicateCheck(c, name, type) ==
  IF name = "" THEN ErrNameRequired ELSE ErrNone

DefaultBindingContext_addExpressionError(c, name, type) ==
  IF name = "" THEN ErrNameRequired
  ELSE IF symbolsHas(c, name, type) THEN ErrDuplicateSymbol
  ELSE ErrNone

DefaultBindingContext_addExpression(c, name, type, provider) ==
  /\ DefaultBindingContext_addExpressionError(c, name, type) = ErrNone
  /\ LET typeMap == IF name \in DOMAIN symbols_[c] THEN symbols_[c][name] ELSE <<>>
     IN symbols_' = [symbols_ EXCEPT
                       ![c] = (name :> ((type :> provider) @@ typeMap)) @@ @]
  /\ UNCHANGED << parent_, subcontexts_ >>
  /\ UNCHANGED << moduleVars, exprs, pc, todo, resolverVars, outcome,
                  evalVars, lexerVars, callVars >>

addSubcontextError(c, name) ==
  IF name = "" THEN ErrNameRequired
  ELSE IF name \in DOMAIN subcontexts_[c] THEN ErrDuplicateSubcontext
  ELSE ErrNone

addSubcontext(c, name, context) ==
  /\ addSubcontextError(c, name) = ErrNone
  /\ subcontexts_' = [subcontexts_ EXCEPT ![c] = (name :> context) @@ @]
  /\ UNCHANGED << parent_, symbols_ >>
  /\ UNCHANGED << moduleVars, exprs, pc, todo, resolverVars, outcome,
                  evalVars, lexerVars, callVars >>

(***************************************************************************)
(* DefaultBindingContext.lookupName with its private lookupRecursive.  A   *)
(* call on the parent or on a subcontext goes through the public           *)
(* lookupName, whose check of the parts holds for every such call (the     *)
(* parts handed on are never empty), so the recursion is on                *)
(* lookupRecursive.  The result is Found(provider) or Failed(error).       *)
(***************************************************************************)
ErrNamePartsRequired == "Name parts required"

ErrInvalidNamePart == "Invalid name part"

\* lookupRecursive that asks the parent before its own symbols.
RECURSIVE lookupRecursiveParentFirst(_, _, _)
lookupRecursiveParentFirst(c, parts, type) ==
  LET head == Head(parts)
      up == lookupRecursiveParentFirst(parent_[c], parts, type)
  IN IF head = "" THEN Failed(ErrInvalidNamePart)
     ELSE IF Len(parts) = 1
     THEN IF parent_[c] # 0 /\ up.ok THEN up
          ELSE IF symbolsHas(c, head, type) THEN Found(symbols_[c][head][type])
          ELSE Failed(ErrUnresolvedName)
     ELSE IF head \in DOMAIN subcontexts_[c]
          THEN lookupRecursiveParentFirst(subcontexts_[c][head], Tail(parts), type)
          ELSE IF parent_[c] # 0 THEN up
          ELSE Failed(ErrNotAnObject)

\* lookupRecursive that falls back to the parent when the subcontext fails.
RECURSIVE lookupRecursiveFallsBack(_, _, _)
lookupRecursiveFallsBack(c, parts, type) ==
  LET head == Head(parts)
      sub == lookupRecursiveFallsBack(subcontexts_[c][head], Tail(parts), type)
  IN IF head = "" THEN Failed(ErrInvalidNamePart)
     ELSE IF Len(parts) = 1
     THEN IF symbolsHas(c, head, type) THEN Found(symbols_[c][head][type])
          ELSE IF parent_[c] # 0 THEN lookupRecursiveFallsBack(parent_[c], parts, type)
          ELSE Failed(ErrUnresolvedName)
     ELSE IF head \in DOMAIN subcontexts_[c] /\ (sub.ok \/ parent_[c] = 0)
          THEN sub
          ELSE IF parent_[c] # 0 THEN lookupRecursiveFallsBack(parent_[c], parts, type)
          ELSE Failed(ErrNotAnObject)

RECURSIVE lookupRecursive(_, _, _)
lookupRecursive(c, parts, type) ==
  LET head == Head(parts)
  IN IF head = "" THEN Failed(ErrInvalidNamePart)
     ELSE IF Len(parts) = 1
     THEN IF symbolsHas(c, head, type) THEN Found(symbols_[c][head][type])
          ELSE IF parent_[c] # 0 THEN lookupRecursive(parent_[c], parts, type)
          ELSE Failed(ErrUnresolvedName)
     ELSE IF head \in DOMAIN subcontexts_[c]
          THEN lookupRecursive(subcontexts_[c][head], Tail(parts), type)
          ELSE IF parent_[c] # 0 THEN lookupRecursive(parent_[c], parts, type)
          ELSE Failed(ErrNotAnObject)

DefaultBindingContext_lookupName(c, parts, type) ==
  IF parts = <<>> THEN Failed(ErrNamePartsRequired)
  ELSE lookupRecursive(c, parts, type)

(***************************************************************************)
(* Lexer.  A source is a sequence of characters and pos counts the         *)
(* characters consumed.  A numeric value is a fraction in lowest terms.    *)
(***************************************************************************)
Nul == "NUL"

DigitChars == << "0", "1", "2", "3", "4", "5", "6", "7", "8", "9" >>

Digits == { DigitChars[k] : k \in 1..10 }

Letters ==
  { "a", "b", "c", "d", "e", "f", "g", "h", "i", "j", "k", "l", "m",
    "n", "o", "p", "q", "r", "s", "t", "u", "v", "w", "x", "y", "z",
    "A", "B", "C", "D", "E", "F", "G", "H", "I", "J", "K", "L", "M",
    "N", "O", "P", "Q", "R", "S", "T", "U", "V", "W", "X", "Y", "Z" }

Whitespace == { " ", "\t", "\n", "\r" }

isDigit(c) == c \in Digits

isAlpha(c) == c \in Letters

isAlphaNumeric(c) == isAlpha(c) \/ isDigit(c) \/ c = "_"

RECURSIVE GCD(_, _)
GCD(a, b) == IF b = 0 THEN a ELSE GCD(b, a % b)

Rational(n, d) == [num |-> n \div GCD(n, d), den |-> d \div GCD(n, d)]

Zero == Rational(0, 1)

DigitValue(c) == (CHOOSE k \in 1..10 : DigitChars[k] = c) - 1

RECURSIVE Decimal(_)
Decimal(ds) ==
  IF ds = <<>> THEN 0
  ELSE Decimal(SubSeq(ds, 1, Len(ds) - 1)) * 10 + DigitValue(ds[Len(ds)])

RECURSIVE Power10(_)
Power10(n) == IF n = 0 THEN 1 ELSE 10 * Power10(n - 1)

\* Number(lexeme) for a lexeme of digits with at most one dot.
Number(lexeme) ==
  LET dots == { k \in 1..Len(lexeme) : lexeme[k] = "." }
      dot == IF dots = {} THEN Len(lexeme) + 1 ELSE CHOOSE k \in dots : TRUE
      whole == SubSeq(lexeme, 1, dot - 1)
      frac == SubSeq(lexeme, dot + 1, Len(lexeme))
  IN Rational(Decimal(whole) * Power10(Len(frac)) + Decimal(frac), Power10(Len(frac)))

Token(type, lexeme, position, value) ==
  [type |-> type, lexeme |-> lexeme, position |-> position, value |-> value]

peek(src, p) == IF p < Len(src) THEN src[p + 1] ELSE Nul

peekNext(src, p) == IF p + 1 < Len(src) THEN src[p + 2] ELSE Nul

RECURSIVE skipWhitespace(_, _)
skipWhitespace(src, p) ==
  IF p < Len(src) /\ src[p + 1] \in Whitespace THEN skipWhitespace(src, p + 1) ELSE p

RECURSIVE skipDigits(_, _)
skipDigits(src, p) == IF isDigit(peek(src, p)) THEN skipDigits(src, p + 1) ELSE p

RECURSIVE skipAlphaNumeric(_, _)
skipAlphaNumeric(src, p) ==
  IF isAlphaNumeric(peek(src, p)) THEN skipAlphaNumeric(src, p + 1) ELSE p

\* Each scanner gives the token and the position after it.
Scanned(tok, p) == [token |-> tok, pos |-> p]

\* number() that takes a dot without a digit after it.
numberTrailingDot(src, start) ==
  LET p1 == skipDigits(src, start)
      p2 == IF peek(src, p1) = "." THEN skipDigits(src, p1 + 1) ELSE p1
      lexeme == SubSeq(src, start + 1, p2)
  IN Scanned(Token("NUMBER", lexeme, start, Number(lexeme)), p2)

number(src, start) ==
  LET p1 == skipDigits(src, start)
      p2 == IF peek(src, p1) = "." /\ isDigit(peekNext(src, p1))
            THEN skipDigits(src, p1 + 1)
            ELSE p1
      lexeme == SubSeq(src, start + 1, p2)
  IN Scanned(Token("NUMBER", lexeme, start, Number(lexeme)), p2)

identifier(src, start) ==
  LET p1 == skipAlphaNumeric(src, start)
  IN Scanned(Token("IDENTIFIER", SubSeq(src, start + 1, p1), start, Zero), p1)

single(src, p, type) == Scanned(Token(type, << peek(src, p) >>, p, Zero), p + 1)

SingleTypes ==
  [c \in {"+", "-", "*", "/", "%", ".", "(", ")"} |->
     CASE c = "+" -> "PLUS"
       [] c = "-" -> "MINUS"
       [] c = "*" -> "STAR"
       [] c = "/" -> "SLASH"
       [] c = "%" -> "PERCENT"
       [] c = "." -> "DOT"
       [] c = "(" -> "LPAREN"
       [] c = ")" -> "RPAREN"]

\* nextToken() of a lexer on src at position p0.
scan(src, p0) ==
  LET p == skipWhitespace(src, p0)
      c == peek(src, p)
  IN IF p >= Len(src) THEN Scanned(Token("EOF", <<>>, p, Zero), p)
     ELSE IF isDigit(c) THEN number(src, p)
     ELSE IF isAlpha(c) THEN identifier(src, p)
     ELSE IF c \in DOMAIN SingleTypes THEN single(src, p, SingleTypes[c])
     ELSE Scanned(Token("UNKNOWN", << c >>, p, Zero), p + 1)

\* nextToken() that throws on a character it does not know.
nextTokenThrowsOnUnknown ==
  /\ LET s == scan(source, pos)
     IN IF s.token.type = "UNKNOWN"
        THEN token' = None /\ pos' = pos
        ELSE token' = Some(s.token) /\ pos' = s.pos
  /\ UNCHANGED << source, parseResult, result >>
  /\ UNCHANGED << moduleVars, exprs, pc, todo, resolverVars, outcome,
                  evalVars, contextVars, callVars >>

nextToken ==
  /\ token' = Some(scan(source, pos).token)
  /\ pos' = scan(source, pos).pos
  /\ UNCHANGED << source, parseResult, result >>
  /\ UNCHANGED << moduleVars, exprs, pc, todo, resolverVars, outcome,
                  evalVars, contextVars, callVars >>

(***************************************************************************)
(* Parser.  The tokens of a source are listed up to the first EOF; each    *)
(* parsing function takes the index of the current token and gives the     *)
(* node and the index after it, or the error thrown.                       *)
(***************************************************************************)
RECURSIVE tokensFrom(_, _)
tokensFrom(src, p) ==
  LET s == scan(src, p)
  IN IF s.token.type = "EOF" THEN << s.token >> ELSE << s.token >> \o tokensFrom(src, s.pos)

tokens(src) == tokensFrom(src, 0)

NumberNode(value) == [kind |-> "number", value |-> value]

NameNode(parts) == [kind |-> "name", parts |-> parts]

UnaryExpression(op, operand) == [kind |-> "unary", operator_ |-> op, operand_ |-> operand]

BinaryExpression(left, op, right) ==
  [kind |-> "binary", left_ |-> left, operator_ |-> op, right_ |-> right]

Parsed(node, k) == [ok |-> TRUE, node |-> Some(node), k |-> k, error |-> "", position |-> 0]

Thrown(error, position) ==
  [ok |-> FALSE, node |-> None, k |-> 0, error |-> error, position |-> position]

ErrUnexpectedToken == "Unexpected token"

ErrExpectedPrimary == "Expected number, identifier, or '('"

\* TokenType is a numeric enum: type.toString() of IDENTIFIER is "1", of RPAREN "9".
ErrExpectedIdentifier == "Expected 1"

ErrExpectedRParen == "Expected 9"

RECURSIVE parseAdditive(_, _)
RECURSIVE additiveLoop(_, _, _)
RECURSIVE parseMultiplicative(_, _)
RECURSIVE multiplicativeLoop(_, _, _)
RECURSIVE parseUnary(_, _)
RECURSIVE parsePrimary(_, _)
RECURSIVE memberLoop(_, _, _)

memberLoop(toks, parts, k) ==
  IF toks[k].type # "DOT" THEN Parsed(NameNode(parts), k)
  ELSE IF toks[k + 1].type # "IDENTIFIER"
  THEN Thrown(ErrExpectedIdentifier, toks[k + 1].position)
  ELSE memberLoop(toks, Append(parts, toks[k + 1].lexeme), k + 2)

parsePrimary(toks, k) ==
  IF toks[k].type = "NUMBER" THEN Parsed(NumberNode(toks[k].value), k + 1)
  ELSE IF toks[k].type = "IDENTIFIER" THEN memberLoop(toks, << toks[k].lexeme >>, k + 1)
  ELSE IF toks[k].type = "LPAREN"
  THEN LET r == parseAdditive(toks, k + 1)
       IN IF ~r.ok THEN r
          ELSE IF toks[r.k].type # "RPAREN"
          THEN Thrown(ErrExpectedRParen, toks[r.k].position)
          ELSE Parsed(r.node[1], r.k + 1)
  ELSE Thrown(ErrExpectedPrimary, toks[k].position)

parseUnary(toks, k) ==
  IF toks[k].type = "MINUS"
  THEN LET r == parseUnary(toks, k + 1)
       IN IF ~r.ok THEN r ELSE Parsed(UnaryExpression("MINUS", r.node[1]), r.k)
  ELSE parsePrimary(toks, k)

multiplicativeLoop(toks, left, k) ==
  IF toks[k].type \notin {"STAR", "SLASH", "PERCENT"} THEN Parsed(left, k)
  ELSE LET r == parseUnary(toks, k + 1)
       IN IF ~r.ok THEN r
          ELSE multiplicativeLoop(toks, BinaryExpression(left, toks[k].type, r.node[1]), r.k)

parseMultiplicative(toks, k) ==
  LET r == parseUnary(toks, k)
  IN IF ~r.ok THEN r ELSE multiplicativeLoop(toks, r.node[1], r.k)

\* The additive loop that parses its right operand as a whole additive expression.
additiveLoopRightAssociative(toks, left, k) ==
  IF toks[k].type \notin {"PLUS", "MINUS"} THEN Parsed(left, k)
  ELSE LET r == parseAdditive(toks, k + 1)
       IN IF ~r.ok THEN r
          ELSE Parsed(BinaryExpression(left, toks[k].type, r.node[1]), r.k)

additiveLoop(toks, left, k) ==
  IF toks[k].type \notin {"PLUS", "MINUS"} THEN Parsed(left, k)
  ELSE LET r == parseMultiplicative(toks, k + 1)
       IN IF ~r.ok THEN r
          ELSE additiveLoop(toks, BinaryExpression(left, toks[k].type, r.node[1]), r.k)

parseAdditive(toks, k) ==
  LET r == parseMultiplicative(toks, k)
  IN IF ~r.ok THEN r ELSE additiveLoop(toks, r.node[1], r.k)

\* Parser.parseExpression without the test for EOF.
Parser_parseExpressionNoEofCheck(toks) == parseAdditive(toks, 1)

\* Parser.parseExpression on the tokens of a source.
Parser_parseExpression(toks) ==
  LET r == parseAdditive(toks, 1)
  IN IF ~r.ok THEN r
     ELSE IF toks[r.k].type # "EOF" THEN Thrown(ErrUnexpectedToken, toks[r.k].position)
     ELSE r

\* parseExpression(expressionString): a lexer of its own, a parser on it, the parse.
parseExpressionString ==
  /\ parseResult' = Some(Parser_parseExpression(tokens(source)))
  /\ UNCHANGED << source, pos, token, result >>
  /\ UNCHANGED << moduleVars, exprs, pc, todo, resolverVars, outcome,
                  evalVars, contextVars, callVars >>

(***************************************************************************)
(* Numbers and evaluate() on a parsed tree.  A number is a fraction in     *)
(* lowest terms with a positive denominator; denominator 0 stands for the  *)
(* values that are no fractions: NaN (0/0), Infinity (1/0) and -Infinity   *)
(* (-1/0).  The sign of a zero is not kept; only a division by a zero      *)
(* could tell the two zeros apart.                                         *)
(***************************************************************************)
NaN == [num |-> 0, den |-> 0]

Infinity(sign) == [num |-> sign, den |-> 0]

isNaN(v) == v.den = 0 /\ v.num = 0

isInfinite(v) == v.den = 0 /\ v.num # 0

Sign(n) == IF n > 0 THEN 1 ELSE IF n < 0 THEN -1 ELSE 0

Abs(n) == IF n < 0 THEN -n ELSE n

Negate(v) == [num |-> -v.num, den |-> v.den]

Add(a, b) ==
  IF isNaN(a) \/ isNaN(b) THEN NaN
  ELSE IF isInfinite(a) /\ isInfinite(b) THEN (IF a.num = b.num THEN a ELSE NaN)
  ELSE IF isInfinite(a) THEN a
  ELSE IF isInfinite(b) THEN b
  ELSE Rational(a.num * b.den + b.num * a.den, a.den * b.den)

Multiply(a, b) ==
  IF isNaN(a) \/ isNaN(b) THEN NaN
  ELSE IF isInfinite(a) \/ isInfinite(b)
  THEN (IF a.num = 0 \/ b.num = 0 THEN NaN ELSE Infinity(Sign(a.num) * Sign(b.num)))
  ELSE Rational(a.num * b.num, a.den * b.den)

Divide(a, b) ==
  IF isNaN(a) \/ isNaN(b) THEN NaN
  ELSE IF isInfinite(a) THEN (IF isInfinite(b) THEN NaN
                              ELSE Infinity(a.num * (IF b.num < 0 THEN -1 ELSE 1)))
  ELSE IF isInfinite(b) THEN Zero
  ELSE IF b.num = 0 THEN (IF a.num = 0 THEN NaN ELSE Infinity(Sign(a.num)))
  ELSE Rational(Sign(b.num) * a.num * b.den, Abs(b.num) * a.den)

\* The remainder of JavaScript: the quotient is truncated towards zero.
Remainder(a, b) ==
  IF isNaN(a) \/ isNaN(b) \/ isInfinite(a) THEN NaN
  ELSE IF isInfinite(b) THEN a
  ELSE IF b.num = 0 THEN NaN
  ELSE LET q == Divide(a, b)
           t == Sign(q.num) * (Abs(q.num) \div q.den)
       IN Add(a, Negate(Multiply(b, Rational(t, 1))))

RECURSIVE evaluate(_)
evaluate(node) ==
  IF node.kind = "number" THEN node.value
  ELSE IF node.kind = "unary" THEN Negate(evaluate(node.operand_))
  ELSE LET l == evaluate(node.left_)
           r == evaluate(node.right_)
       IN CASE node.operator_ = "PLUS" -> Add(l, r)
            [] node.operator_ = "MINUS" -> Add(l, Negate(r))
            [] node.operator_ = "STAR" -> Multiply(l, r)
            [] node.operator_ = "SLASH" -> Divide(l, r)
            [] node.operator_ = "PERCENT" -> Remainder(l, r)

\* bind(ctx) of a tree in a context without symbols: the first name in it, left
\* to right, is not found; a tree without names is returned as it is.
RECURSIVE bindError(_)
bindError(node) ==
  IF node.kind = "number" THEN ErrNone
  ELSE IF node.kind = "name"
  THEN (IF Len(node.parts) = 1 THEN ErrUnresolvedName ELSE ErrNotAnObject)
  ELSE IF node.kind = "unary" THEN bindError(node.operand_)
  ELSE IF bindError(node.left_) # ErrNone THEN bindError(node.left_)
  ELSE bindError(node.right_)

Evaluated(v) == [ok |-> TRUE, value |-> v, error |-> ErrNone]

Failure(error) == [ok |-> FALSE, value |-> NaN, error |-> error]

\* parseExpression, bind in a new DefaultBindingContext, resolve, evaluate.
evalExpression ==
  /\ LET r == Parser_parseExpression(tokens(source))
     IN result' = IF ~r.ok THEN Some(Failure(r.error))
                 ELSE IF bindError(r.node[1]) # ErrNone
                 THEN Some(Failure(bindError(r.node[1])))
                 ELSE Some(Evaluated(evaluate(r.node[1])))
  /\ UNCHANGED << source, pos, token, parseResult >>
  /\ UNCHANGED << moduleVars, exprs, pc, todo, resolverVars, outcome,
                  evalVars, contextVars, callVars >>

(***************************************************************************)
(* Initial values of the state that a specification does not use.          *)
(***************************************************************************)
NoEval == evaluations = <<>> /\ calls = <<>>

NoContexts == parent_ = <<>> /\ symbols_ = <<>> /\ subcontexts_ = <<>>

NoLexer == source = <<>> /\ pos = 0 /\ token = None /\ parseResult = None /\ result = None

NoCall == argument = None

(***************************************************************************)
(* The specification of the Module facade: every public operation on       *)
(* every module, within the bounds.                                        *)
(***************************************************************************)
Init ==
  /\ parent = <<>>
  /\ compiled = <<>>
  /\ subModules = <<>>
  /\ names = <<>>
  /\ exprs = <<>>
  /\ pc = "idle"
  /\ todo = <<>>
  /\ dependentExpressions = <<>>
  /\ resolvedExpressions = <<>>
  /\ j = 0
  /\ i = 0
  /\ madeProgress = FALSE
  /\ unresolvedCount = 0
  /\ passes = 0
  /\ outcome = <<>>
  /\ NoEval
  /\ NoContexts
  /\ NoLexer
  /\ NoCall

Next ==
  \/ Len(parent) < MaxModules /\ createRootModule
  \/ \E m \in Modules : Len(parent) < MaxModules /\ addSubModule(m)
  \/ \E m \in Modules, name \in Names, text \in Texts :
       Cardinality(Exprs) < MaxExprs /\ addExpression(m, name, text)
  \/ \E m \in Modules, name \in Names :
       Cardinality(Exprs) < MaxExprs /\ addNativeExpression(m, name)
  \/ \E m \in Modules, name \in MappedNames, other \in Modules :
       NumMaps < MaxMaps /\ mapModule(m, name, other)
  \/ \E m \in Modules : compile(m)
  \/ bindStep
  \/ loopHead
  \/ scanStep
  \/ passEnd

Spec == Init /\ [][Next]_vars

(***************************************************************************)
(* The specification of the Resolver: one root module, any batch of up to  *)
(* MaxBatch expressions registered in any order, then compile().           *)
(***************************************************************************)
ResolverInit ==
  /\ parent = << 0 >>
  /\ compiled = << FALSE >>
  /\ subModules = << <<>> >>
  /\ names = << <<>> >>
  /\ exprs = <<>>
  /\ pc = "idle"
  /\ todo = <<>>
  /\ dependentExpressions = <<>>
  /\ resolvedExpressions = <<>>
  /\ j = 0
  /\ i = 0
  /\ madeProgress = FALSE
  /\ unresolvedCount = 0
  /\ passes = 0
  /\ outcome = << "open" >>
  /\ NoEval
  /\ NoContexts
  /\ NoLexer
  /\ NoCall

ResolverNext ==
  \/ \E name \in BatchNames, text \in BatchTexts :
       Cardinality(Exprs) < MaxBatch /\ addExpression(1, name, text)
  \/ compile(1)
  \/ bindStep
  \/ loopHead
  \/ scanStep
  \/ passEnd

ResolverSpec == ResolverInit /\ [][ResolverNext]_vars

(***************************************************************************)
(* The dependency graph of the expressions, read off the name nodes of     *)
(* their ASTs once these are linked.                                       *)
(***************************************************************************)
CurrentAst(e) ==
  IF exprs[e].expression_ # None THEN exprs[e].expression_[1]
  ELSE IF exprs[e].ast_ # None THEN exprs[e].ast_[1]
  ELSE exprs[e].root[1]

DependsOn(e) ==
  { CurrentAst(e)[k].link[1] :
      k \in { l \in 1..Len(CurrentAst(e)) : CurrentAst(e)[l].kind \in {"linked", "resolved"} } }

RECURSIVE Closure(_)
Closure(S) ==
  LET T == S \cup UNION { DependsOn(x) : x \in S }
  IN IF T = S THEN S ELSE Closure(T)

ReachableFrom(e) == Closure(DependsOn(e))

OnCycle(e) == e \in ReachableFrom(e)

HasCycle == \E e \in Exprs : OnCycle(e)

AllBound == \A e \in Exprs : exprs[e].isBound

Elements(seq) == { seq[k] : k \in 1..Len(seq) }

(***************************************************************************)
(* C1.  When every expression of the batch is bound and at least one of    *)
(* them lies on a dependency cycle (a self-reference included), compile()  *)
(* never returns normally: while it runs it stays within as many passes    *)
(* as the batch has expressions, and when it has ended it has ended with   *)
(* the circular-dependency error.                                          *)
(***************************************************************************)
C1_CycleRaisesCircular ==
  (compiled[1] /\ AllBound /\ HasCycle) =>
    /\ outcome[1] # "returned"
    /\ pc # "bind" => passes <= Len(dependentExpressions)
    /\ pc = "idle" => outcome[1] = ErrCircular

\* A batch with a cycle through two different expressions has been compiled.
C1_Witness ==
  /\ pc = "idle"
  /\ outcome[1] = ErrCircular
  /\ AllBound
  /\ \E e \in Exprs : OnCycle(e) /\ e \notin DependsOn(e)

(***************************************************************************)
(* C2.  resolveExpressions over N expressions terminates after at most N   *)
(* passes: the number of passes started never exceeds N, and every step    *)
(* of the run either ends it or decreases a measure that is never          *)
(* negative.                                                               *)
(***************************************************************************)
ResolverMeasure ==
  LET N == Len(dependentExpressions)
  IN IF pc = "loop" THEN (N - j) * (N + 2) + 1
     ELSE (N - j - 1) * (N + 2) + (N - i) + 2

ResolverStepDecreases ==
  pc \in {"loop", "scan"} =>
    \/ pc' = "idle"
    \/ pc' \in {"loop", "scan"} /\ ResolverMeasure' < ResolverMeasure

C2_TerminatesWithinNPasses ==
  /\ [](pc # "bind" => passes <= Len(dependentExpressions))
  /\ [](pc \in {"loop", "scan"} => ResolverMeasure >= 0)
  /\ [][ResolverStepDecreases]_vars

\* A run that needed as many passes as the batch has expressions, three or more.
C2_Witness ==
  /\ pc = "idle"
  /\ outcome[1] = "returned"
  /\ passes = Len(dependentExpressions)
  /\ passes >= 3

(***************************************************************************)
(* C3.  When every expression of the batch is bound and no expression      *)
(* lies on a cycle, compile() returns normally whatever the order of the   *)
(* batch, and every expression of the batch is resolved.                   *)
(***************************************************************************)
C3_AcyclicResolvesInAnyOrder ==
  (compiled[1] /\ pc = "idle" /\ AllBound /\ ~HasCycle) =>
    /\ outcome[1] = "returned"
    /\ \A e \in Exprs : isResolved(e)
    /\ Elements(resolvedExpressions) = Exprs
    /\ Len(resolvedExpressions) = Cardinality(Exprs)

\* The batch [b, a] with b depending on a: the dependent comes first.
C3_Witness ==
  /\ pc = "idle"
  /\ outcome[1] = "returned"
  /\ Len(dependentExpressions) >= 2
  /\ dependentExpressions[2] \in DependsOn(dependentExpressions[1])
  /\ \A e \in Exprs : isResolved(e)

(***************************************************************************)
(* C4.  The output list is a topological order: every expression in it     *)
(* comes after all the expressions it depends on.                          *)
(***************************************************************************)
C4_OutputTopological ==
  \A k \in 1..Len(resolvedExpressions) :
    \A d \in DependsOn(resolvedExpressions[k]) :
      \E l \in 1..(k - 1) : resolvedExpressions[l] = d

\* An output whose order differs from the order of the input.
C4_Witness ==
  /\ pc = "idle"
  /\ outcome[1] = "returned"
  /\ Len(resolvedExpressions) >= 3
  /\ resolvedExpressions # dependentExpressions
  /\ \E e \in Exprs : Cardinality(DependsOn(e)) = 2

(***************************************************************************)
(* Helpers of the claims about the Module facade.                          *)
(***************************************************************************)
Roots == { m \in Modules : parent[m] = 0 }

EveryMutatorFails(m) ==
  /\ addSubModuleError(m) # ErrNone
  /\ \A name \in Names :
       /\ addExpressionError(m, name) # ErrNone
       /\ addNativeExpressionError(m, name) # ErrNone
  /\ \A name \in MappedNames, other \in Modules :
       mapModuleError(m, name, other) # ErrNone

CompileFailed(m) == outcome[m] \notin {"open", "running", "returned"}

(***************************************************************************)
(* C5.  compile() succeeds at most once and only on a root: on a module    *)
(* with a parent it fails with 'Only the root module can be compiled', on  *)
(* a compiled module with 'Module is already compiled'; only a root that   *)
(* is open starts a compilation, and a compiled module never reverts.      *)
(***************************************************************************)
C5_State ==
  \A m \in Modules :
    /\ parent[m] # 0 => compileError(m) = ErrOnlyRoot /\ ~compiled[m] /\ outcome[m] = "open"
    /\ compiled[m] => compileError(m) = ErrAlreadyCompiled /\ outcome[m] # "open"
    /\ outcome[m] # "open" => compiled[m]

C5_Step ==
  \A m \in Modules :
    /\ compiled[m] => compiled'[m]
    /\ (outcome'[m] = "running" /\ outcome[m] # "running") =>
         (outcome[m] = "open" /\ parent[m] = 0 /\ ~compiled[m])

C5_CompileOnceRootOnly == []C5_State /\ [][C5_Step]_vars

\* A root has been compiled and a submodule exists: both errors arise.
C5_Witness ==
  \E m \in Modules, c \in Modules :
    /\ outcome[m] = "returned"
    /\ parent[c] = m
    /\ compileError(m) = ErrAlreadyCompiled
    /\ compileError(c) = ErrOnlyRoot

(***************************************************************************)
(* C6.  After the root has been compiled, no module of its tree changes:   *)
(* the name table and the submodule list of the root and of every          *)
(* descendant stay as they are.                                            *)
(***************************************************************************)
C6_Step ==
  \A m \in Modules :
    compiled[rootModule(m)] =>
      /\ names'[m] = names[m]
      /\ subModules'[m] = subModules[m]

C6_TreeFrozen == [][C6_Step]_vars

(***************************************************************************)
(* C7.  After compile() has been called on a root, addExpression,          *)
(* addNativeExpression, addSubModule and mapModule on that root fail, and  *)
(* its name table and its submodule list stay as they are.                 *)
(***************************************************************************)
C7_State ==
  \A m \in Roots : outcome[m] # "open" => EveryMutatorFails(m)

C7_Step ==
  \A m \in Roots :
    outcome[m] # "open" =>
      /\ names'[m] = names[m]
      /\ subModules'[m] = subModules[m]

C7_RootFrozen == []C7_State /\ [][C7_Step]_vars

\* A compiled root that holds a name and is idle again.
C7_Witness ==
  \E m \in Roots :
    /\ outcome[m] \notin {"open", "running"}
    /\ Len(names[m]) > 0
    /\ \E name \in Names : addExpressionError(m, name) = ErrCannotModify
    /\ addSubModuleError(m) = ErrAddSubModule

(***************************************************************************)
(* C8.  The accessor of an expression fails on every call made before      *)
(* compile() of the root, and succeeds on every call made after compile()  *)
(* of the root has returned normally.                                      *)
(***************************************************************************)
C8_AccessorFollowsCompile ==
  \A e \in Exprs :
    LET r == rootModule(Owner(e))
    IN /\ outcome[r] = "open" => accessorError(e) # ErrNone
       /\ outcome[r] = "returned" => accessorError(e) = ErrNone /\ accessor(e) = e

(***************************************************************************)
(* C9.  When compile() has failed partway, with a binding error or with    *)
(* the circular-dependency error, nothing is rolled back: the root stays   *)
(* compiled, a later compile() fails with 'Module is already compiled',    *)
(* the mutating operations on the root keep failing, and the failure       *)
(* stays on record.                                                        *)
(***************************************************************************)
C9_State ==
  \A m \in Modules :
    CompileFailed(m) =>
      /\ compiled[m]
      /\ compileError(m) = ErrAlreadyCompiled
      /\ EveryMutatorFails(m)

C9_Step ==
  \A m \in Modules :
    CompileFailed(m) =>
      /\ compiled'[m]
      /\ outcome'[m] = outcome[m]
      /\ names'[m] = names[m]

C9_FailedCompileStaysCompiled == []C9_State /\ [][C9_Step]_vars

\* compile() has failed with a binding error.
C9_Witness ==
  \E m \in Modules :
    /\ pc = "idle"
    /\ outcome[m] \in {ErrUnresolvedName, ErrNotAnObject}
    /\ compiled[m]
    /\ \E e \in Exprs : Owner(e) = m /\ ~exprs[e].isBound

ScopeTexts == { <<>>, << <<"a">> >> }

ScopeInit ==
  /\ parent = << 0, 1, 2 >>
  /\ compiled = << FALSE, FALSE, FALSE >>
  /\ subModules = << << 2 >>, << 3 >>, <<>> >>
  /\ names = << <<>>, <<>>, <<>> >>
  /\ exprs = <<>>
  /\ pc = "idle"
  /\ todo = <<>>
  /\ dependentExpressions = <<>>
  /\ resolvedExpressions = <<>>
  /\ j = 0
  /\ i = 0
  /\ madeProgress = FALSE
  /\ unresolvedCount = 0
  /\ passes = 0
  /\ outcome = << "open", "open", "open" >>
  /\ NoEval
  /\ NoContexts
  /\ NoLexer
  /\ NoCall

ScopeNext ==
  \/ \E m \in Modules, name \in Names, text \in ScopeTexts :
       Cardinality(Exprs) < MaxScopeExprs /\ addExpression(m, name, text)
  \/ compile(1)
  \/ bindStep
  \/ loopHead
  \/ scanStep
  \/ passEnd

ScopeSpec == ScopeInit /\ [][ScopeNext]_vars

(***************************************************************************)
(* C11.  A single-part name referenced from an expression of module M is   *)
(* linked to M's own expression of that name when M defines one, and       *)
(* otherwise to the definition of the nearest ancestor that defines it;    *)
(* when no module of the chain defines it the bind fails.                  *)
(***************************************************************************)
Defines(m, name) ==
  \E k \in 1..Len(names[m]) : names[m][k].name = name /\ names[m][k].type = "VALUE"

RECURSIVE Nearest(_, _)
Nearest(m, name) ==
  IF Defines(m, name) THEN m
  ELSE IF parent[m] = 0 THEN 0
  ELSE Nearest(parent[m], name)

C11_Step ==
  (pc = "bind" /\ todo # <<>>) =>
    LET e == Head(todo).expr
        ast == exprs[e].root[1]
        singleParts == { k \in 1..Len(ast) : ast[k].kind = "name" /\ Len(ast[k].parts) = 1 }
    IN /\ exprs'[e].isBound =>
            \A k \in singleParts :
              /\ Nearest(Owner(e), ast[k].parts[1]) # 0
              /\ exprs'[e].ast_[1][k].kind = "linked"
              /\ exprs'[e].ast_[1][k].link =
                   Some(<< Nearest(Owner(e), ast[k].parts[1]), ast[k].parts[1] >>)
       /\ (\A k \in 1..Len(ast) : k \in singleParts /\ Nearest(Owner(e), ast[k].parts[1]) # 0)
            => exprs'[e].isBound

C11_NearestDefinitionWins == [][C11_Step]_vars

\* An expression of the grandchild is linked to the child's definition
\* although the root defines the name too.
C11_Witness ==
  \E e \in Exprs :
    /\ Owner(e) = 3
    /\ exprs[e].isBound
    /\ DependsOn(e) = { << 2, "a" >> }
    /\ << 1, "a" >> \in Exprs

(***************************************************************************)
(* The specification of mapped modules: a root and a child, up to          *)
(* MaxAliasNames names (expressions and aliases) registered in the two,    *)
(* then compile() on the root.                                             *)
(***************************************************************************)
Aliases == {"m", "n"}

AliasTexts == { <<>>,
                << <<"m", "a">> >>,
                << <<"m", "a">>, <<"n", "a">> >> }

NumNames == Len(names[1]) + Len(names[2])

AliasInit ==
  /\ parent = << 0, 1 >>
  /\ compiled = << FALSE, FALSE >>
  /\ subModules = << << 2 >>, <<>> >>
  /\ names = << <<>>, <<>> >>
  /\ exprs = <<>>
  /\ pc = "idle"
  /\ todo = <<>>
  /\ dependentExpressions = <<>>
  /\ resolvedExpressions = <<>>
  /\ j = 0
  /\ i = 0
  /\ madeProgress = FALSE
  /\ unresolvedCount = 0
  /\ passes = 0
  /\ outcome = << "open", "open" >>
  /\ NoEval
  /\ NoContexts
  /\ NoLexer
  /\ NoCall

AliasNext ==
  \/ \E m \in Modules, name \in Names, text \in AliasTexts :
       NumNames < MaxAliasNames /\ addExpression(m, name, text)
  \/ \E m \in Modules, name \in Aliases, other \in Modules :
       NumNames < MaxAliasNames /\ mapModule(m, name, other)
  \/ compile(1)
  \/ bindStep
  \/ loopHead
  \/ scanStep
  \/ passEnd

AliasSpec == AliasInit /\ [][AliasNext]_vars

(***************************************************************************)
(* C12.  A reference 'alias.name' in module M, where M maps module K       *)
(* under alias and K registers name, is linked to K's expression of that   *)
(* name; every alias of K leads to that one expression, which is resolved  *)
(* once, and after compile() has returned the referring expression is      *)
(* resolved through it.                                                    *)
(***************************************************************************)
MapsTo(m, alias) ==
  IF \E k \in 1..Len(names[m]) : names[m][k].name = alias /\ names[m][k].type = "OBJECT"
  THEN namesGet(m, alias).value
  ELSE 0

C12_Step ==
  (pc = "bind" /\ todo # <<>>) =>
    LET e == Head(todo).expr
        ast == exprs[e].root[1]
        dotted == { k \in 1..Len(ast) :
                      /\ ast[k].kind = "name"
                      /\ Len(ast[k].parts) = 2
                      /\ MapsTo(Owner(e), ast[k].parts[1]) # 0
                      /\ Defines(MapsTo(Owner(e), ast[k].parts[1]), ast[k].parts[2]) }
    IN /\ exprs'[e].isBound =>
            \A k \in dotted :
              /\ exprs'[e].ast_[1][k].kind = "linked"
              /\ exprs'[e].ast_[1][k].link =
                   Some(<< MapsTo(Owner(e), ast[k].parts[1]), ast[k].parts[2] >>)
       /\ dotted = 1..Len(ast) => exprs'[e].isBound

C12_State ==
  /\ \A k, l \in 1..Len(resolvedExpressions) :
       resolvedExpressions[k] = resolvedExpressions[l] => k = l
  /\ \A e \in Exprs :
       (outcome[1] = "returned" /\ isResolved(e)) =>
         \A d \in DependsOn(e) : isResolved(d) /\ accessorError(d) = ErrNone

C12_AliasesShareExpression == []C12_State /\ [][C12_Step]_vars

\* One expression of the root refers to the child's expression through two
\* aliases of the child, and compile() has returned.
C12_Witness ==
  /\ outcome[1] = "returned"
  /\ MapsTo(1, "m") = 2
  /\ MapsTo(1, "n") = 2
  /\ \E e \in Exprs :
       /\ Owner(e) = 1
       /\ Len(CurrentAst(e)) = 2
       /\ DependsOn(e) = { << 2, "a" >> }
       /\ isResolved(e)

(***************************************************************************)
(* The specification of the expression lifecycle: up to MaxLifeExprs       *)
(* expressions registered in one context, and bind, resolve and evaluate   *)
(* called on them directly, in any order and any number of times.          *)
(***************************************************************************)
LifeNames == {"a", "b", "c"}

LifeTexts == { <<>>,
               << <<"a">> >>,
               << <<"a">>, <<"a">> >>,
               << <<"a">>, <<"c">> >> }

LifeInit ==
  /\ parent = << 0 >>
  /\ compiled = << FALSE >>
  /\ subModules = << <<>> >>
  /\ names = << <<>> >>
  /\ exprs = <<>>
  /\ pc = "idle"
  /\ todo = <<>>
  /\ dependentExpressions = <<>>
  /\ resolvedExpressions = <<>>
  /\ j = 0
  /\ i = 0
  /\ madeProgress = FALSE
  /\ unresolvedCount = 0
  /\ passes = 0
  /\ outcome = << "open" >>
  /\ NoEval
  /\ NoContexts
  /\ NoLexer
  /\ NoCall

LifeNext ==
  \/ \E name \in LifeNames, text \in LifeTexts :
       Cardinality(Exprs) < MaxLifeExprs /\ addExpression(1, name, text)
  \/ \E name \in LifeNames :
       Cardinality(Exprs) < MaxLifeExprs /\ addNativeExpression(1, name)
  \/ \E e \in Exprs : bindCall(e)
  \/ \E e \in Exprs : resolveCall(e)
  \/ \E e \in Exprs : Count(evaluations, e) < MaxEvaluations /\ evaluateCall(e)

LifeSpec == LifeInit /\ [][LifeNext]_vars

(***************************************************************************)
(* C13.  bind succeeds at most once per UnboundExpression: once bound,     *)
(* the wrapper holds no root, every further bind fails with 'Expression    *)
(* already bound' and changes nothing, and the wrapper stays bound to the  *)
(* expression it produced, whose references do not change.                 *)
(***************************************************************************)
C13_State ==
  \A e \in Exprs :
    exprs[e].isBound =>
      /\ exprs[e].root = None
      /\ exprs[e].ast_ # None \/ exprs[e].expression_ # None
      /\ ~bind(e, Owner(e)).ok
      /\ bind(e, Owner(e)).err = ErrAlreadyBound
      /\ bind(e, Owner(e)).expr = exprs[e]

C13_Step ==
  \A e \in Exprs :
    exprs[e].isBound =>
      /\ exprs'[e].isBound
      /\ exprs'[e].root = None
      /\ DependsOn(e)' = DependsOn(e)

C13_BindAtMostOnce == []C13_State /\ [][C13_Step]_vars

\* A bound expression with a reference, on which bind now fails.
C13_Witness ==
  \E e \in Exprs :
    /\ exprs[e].isBound
    /\ DependsOn(e) # {}
    /\ bind(e, Owner(e)).err = ErrAlreadyBound

(***************************************************************************)
(* C14.  As stated: resolve() fails when the expression is resolved        *)
(* already and when a direct dependency is unresolved, and a failing call  *)
(* leaves isResolved() and the owned AST as they were.                     *)
(***************************************************************************)
C14_FailLeavesAstStep ==
  \A e \in Exprs :
    (exprs[e].isBound /\ resolveError(e) # ErrNone) =>
      /\ isResolved(e)' = isResolved(e)
      /\ exprs'[e].ast_ = exprs[e].ast_

C14_FailingResolveLeavesAst == [][C14_FailLeavesAstStep]_vars

(***************************************************************************)
(* C14, amended.  resolve() fails when the expression is resolved already  *)
(* and when a direct dependency is unresolved.  A failing call leaves      *)
(* isResolved() as it was and the AST with the same nodes and the same     *)
(* references, still owned by the DependentExpression; what it may fill    *)
(* is the cached dependency list and the link caches of the name nodes.    *)
(* A successful call makes isResolved() true for ever.                     *)
(***************************************************************************)
Shape(ast) ==
  IF ast = None THEN None
  ELSE Some([k \in 1..Len(ast[1]) |->
               [kind |-> ast[1][k].kind, parts |-> ast[1][k].parts, link |-> ast[1][k].link]])

C14_State ==
  \A e \in Exprs :
    exprs[e].isBound =>
      /\ isResolved(e) => resolveError(e) = ErrAlreadyResolved
      /\ (\E d \in DependsOn(e) : ~isResolved(d)) => resolveError(e) # ErrNone
      /\ resolveError(e) = ErrNone => \A d \in DependsOn(e) : isResolved(d)

C14_Step ==
  \A e \in Exprs :
    /\ (exprs[e].isBound /\ resolveError(e) # ErrNone) =>
         /\ isResolved(e)' = isResolved(e)
         /\ Shape(exprs'[e].ast_) = Shape(exprs[e].ast_)
         /\ exprs'[e].expression_ = exprs[e].expression_
    /\ isResolved(e) => isResolved(e)'

C14_FailingResolveKeepsShape == []C14_State /\ [][C14_Step]_vars

\* resolve() has failed on an expression whose dependency is unresolved: the
\* dependency list is cached, the expression is not resolved.
C14_Witness ==
  \E e \in Exprs :
    /\ exprs[e].isBound
    /\ ~isResolved(e)
    /\ exprs[e].dependencies_ # None
    /\ resolveError(e) = ErrUnresolvedDependencies

(***************************************************************************)
(* C15.  evaluate() changes no engine state: the wrappers, their cached    *)
(* dependency lists and their AST nodes, and the name tables are the same  *)
(* after the call as before; and an Expression can always be evaluated,    *)
(* since every expression it refers to is resolved.                        *)
(***************************************************************************)
C15_State ==
  \A e \in Exprs :
    isResolved(e) => \A d \in DependsOn(e) : isResolved(d) /\ d # e

C15_Step ==
  evaluations' # evaluations =>
    /\ exprs' = exprs
    /\ names' = names
    /\ compiled' = compiled

C15_EvaluateIsPure == []C15_State /\ [][C15_Step]_vars

\* An expression with a reference has been evaluated twice.
C15_Witness ==
  \E e \in Exprs :
    /\ Count(evaluations, e) >= 2
    /\ DependsOn(e) # {}

(***************************************************************************)
(* C16.  Nothing is memoized: an evaluate() call on a native expression    *)
(* invokes its callback exactly once, so the callback has been invoked at  *)
(* least as often as the expression has been evaluated; and an evaluate()  *)
(* call on an expression that refers to native expressions invokes the     *)
(* callback of each once per reference.                                    *)
(***************************************************************************)
IsNative(e) == CurrentAst(e)[1].kind = "native"

References(e, n) ==
  Cardinality({ k \in 1..Len(CurrentAst(e)) :
                  /\ CurrentAst(e)[k].kind \in {"linked", "resolved"}
                  /\ CurrentAst(e)[k].link = Some(n) })

C16_State ==
  \A n \in Exprs : IsNative(n) => Count(calls, n) >= Count(evaluations, n)

C16_Step ==
  \A e \in Exprs :
    Count(evaluations', e) # Count(evaluations, e) =>
      \A n \in Exprs :
        IsNative(n) =>
          /\ e = n => Count(calls', n) = Count(calls, n) + 1
          /\ (e # n /\ \A d \in DependsOn(e) : IsNative(d)) =>
               Count(calls', n) = Count(calls, n) + References(e, n)

C16_NoMemoization == []C16_State /\ [][C16_Step]_vars

\* Two evaluate() calls on a native expression, two invocations.
C16_Witness ==
  \E n \in Exprs :
    /\ IsNative(n)
    /\ Count(evaluations, n) = 2
    /\ Count(calls, n) = 2

(***************************************************************************)
(* The specification of direct calls of resolveExpressions: one context,   *)
(* expressions registered in it and bound one by one, and calls with null  *)
(* and with every list of distinct bound expressions.                      *)
(***************************************************************************)
CallNames == {"a", "b", "c"}

CallTexts == {<<>>, << <<"a">> >>, << <<"b">> >>}

Bound == { e \in Exprs : exprs[e].isBound }

RECURSIVE Lists(_)
Lists(S) ==
  {<<>>} \cup UNION { { <<e>> \o l : l \in Lists(S \ {e}) } : e \in S }

Arguments == {NullArgument} \cup { ArrayArgument(l) : l \in Lists(Bound) }

CallInit == LifeInit

CallNext ==
  \/ \E name \in CallNames, text \in CallTexts :
       Cardinality(Exprs) < MaxCallExprs /\ addExpression(1, name, text)
  \/ \E e \in Exprs : ~exprs[e].isBound /\ bindCall(e)
  \/ \E arg \in Arguments : resolveExpressions(arg)
  \/ loopHead
  \/ scanStep
  \/ passEnd

CallSpec == CallInit /\ [][CallNext]_vars

(***************************************************************************)
(* C17.  resolveExpressions([]) returns an empty list without error and    *)
(* never starts a pass; a call with an argument that is no array fails at  *)
(* once with 'No dependent expressions provided.', having inspected and    *)
(* resolved nothing.                                                       *)
(***************************************************************************)
C17_State ==
  /\ argument = Some(ArrayArgument(<<>>)) =>
       /\ pc \in {"idle", "loop"}
       /\ resolvedExpressions = <<>>
       /\ passes = 0
       /\ pc = "idle" => outcome[1] = "returned"
  /\ argument = Some(NullArgument) =>
       /\ pc = "idle"
       /\ outcome[1] = ErrNoDependentExpressions

C17_Step ==
  (argument' = Some(NullArgument) /\ (argument' # argument \/ outcome' # outcome)) =>
    /\ exprs' = exprs
    /\ resolverVars' = resolverVars
    /\ pc' = "idle"

C17_EmptyAndNonArray == []C17_State /\ [][C17_Step]_vars

\* A call with null has failed while a bound, unresolved expression exists,
\* after a call that returned a list.
C17_Witness ==
  /\ argument = Some(NullArgument)
  /\ outcome[1] = ErrNoDependentExpressions
  /\ resolvedExpressions # <<>>
  /\ \E e \in Bound : ~isResolved(e)

(***************************************************************************)
(* The specification of registration: a root module with the three         *)
(* registrations of Module, and binding contexts with the two              *)
(* registrations of DefaultBindingContext, whose providers are two         *)
(* expressions parsed beforehand.                                          *)
(***************************************************************************)
Providers == { <<0, "p">>, <<0, "q">> }

ContextNames == {"", "a", "b"}

RegisterTexts == {<<>>}

NameTypes == {"VALUE", "FUNCTION"}

NumSymbols(c) ==
  Cardinality({ nt \in ContextNames \X NameTypes : symbolsHas(c, nt[1], nt[2]) })

RECURSIVE Sum(_, _)
Sum(f, S) ==
  IF S = {} THEN 0
  ELSE LET x == CHOOSE x \in S : TRUE IN f[x] + Sum(f, S \ {x})

NumRegistrations ==
  Sum([m \in Modules |-> Len(names[m])], Modules)
  + Sum([c \in Contexts |-> NumSymbols(c) + Cardinality(DOMAIN subcontexts_[c])],
        Contexts)

RegisterInit ==
  /\ parent = << 0 >>
  /\ compiled = << FALSE >>
  /\ subModules = << <<>> >>
  /\ names = << <<>> >>
  /\ exprs = (<<0, "p">> :> UnboundExpression(parseExpression(<<>>)))
             @@ (<<0, "q">> :> UnboundExpression(createNativeExpression))
  /\ pc = "idle"
  /\ todo = <<>>
  /\ dependentExpressions = <<>>
  /\ resolvedExpressions = <<>>
  /\ j = 0
  /\ i = 0
  /\ madeProgress = FALSE
  /\ unresolvedCount = 0
  /\ passes = 0
  /\ outcome = << "open" >>
  /\ NoEval
  /\ NoContexts
  /\ NoLexer
  /\ NoCall

RegisterNext ==
  \/ \E m \in Modules, name \in Names, text \in RegisterTexts :
       NumRegistrations < MaxRegistrations /\ addExpression(m, name, text)
  \/ \E m \in Modules, name \in Names :
       NumRegistrations < MaxRegistrations /\ addNativeExpression(m, name)
  \/ \E m \in Modules, name \in Names, other \in Modules :
       NumRegistrations < MaxRegistrations /\ mapModule(m, name, other)
  \/ \E p \in {0} \cup Contexts :
       Len(parent_) < MaxContexts /\ DefaultBindingContext(p)
  \/ \E c \in Contexts, name \in ContextNames, type \in NameTypes, provider \in Providers :
       /\ NumRegistrations < MaxRegistrations
       /\ DefaultBindingContext_addExpression(c, name, type, provider)
  \/ \E c \in Contexts, name \in ContextNames, context \in Contexts :
       NumRegistrations < MaxRegistrations /\ addSubcontext(c, name, context)

RegisterSpec == RegisterInit /\ [][RegisterNext]_vars

(***************************************************************************)
(* C18.  Registering a name twice in one scope fails and keeps the first   *)
(* registration: in a module, addExpression, addNativeExpression and       *)
(* mapModule fail for a name the module holds, whose entry stays as it is; *)
(* in a binding context, addExpression fails for a registered (name, type) *)
(* pair and addSubcontext for a registered subcontext name, and the        *)
(* provider and the subcontext registered first stay.                      *)
(***************************************************************************)
C18_State ==
  /\ \A m \in Modules, name \in Names :
       namesHas(m, name) =>
         /\ addExpressionError(m, name) # ErrNone
         /\ addNativeExpressionError(m, name) # ErrNone
         /\ \A other \in Modules : mapModuleError(m, name, other) # ErrNone
         /\ Cardinality({ k \in 1..Len(names[m]) : names[m][k].name = name }) = 1
  /\ \A c \in Contexts, name \in ContextNames :
       /\ \A type \in NameTypes :
            symbolsHas(c, name, type) =>
              DefaultBindingContext_addExpressionError(c, name, type) = ErrDuplicateSymbol
       /\ name \in DOMAIN subcontexts_[c] =>
            addSubcontextError(c, name) = ErrDuplicateSubcontext

C18_Step ==
  /\ \A m \in Modules, name \in Names :
       namesHas(m, name) =>
         /\ namesHas(m, name)'
         /\ namesGet(m, name)' = namesGet(m, name)
  /\ \A c \in Contexts, name \in ContextNames :
       /\ \A type \in NameTypes :
            symbolsHas(c, name, type) =>
              /\ symbolsHas(c, name, type)'
              /\ symbols_'[c][name][type] = symbols_[c][name][type]
       /\ name \in DOMAIN subcontexts_[c] =>
            /\ name \in DOMAIN subcontexts_'[c]
            /\ subcontexts_'[c][name] = subcontexts_[c][name]

C18_DuplicateRegistrationFails == []C18_State /\ [][C18_Step]_vars

\* A module, a symbol table and a subcontext table each hold a name.
C18_Witness ==
  /\ \E m \in Modules, name \in Names : namesHas(m, name)
  /\ \E c \in Contexts, name \in ContextNames, type \in NameTypes :
       symbolsHas(c, name, type)
  /\ \E c \in Contexts, name \in ContextNames : name \in DOMAIN subcontexts_[c]

(***************************************************************************)
(* The specification of the lexer and the parser: a lexer on any source    *)
(* over the characters below, asked for tokens again and again, and        *)
(* parseExpression called on the same source.                              *)
(***************************************************************************)
Chars == { "5", ".", "x", "_", "+", "(", ")", " ", "@" }

RECURSIVE Strings(_)
Strings(n) ==
  IF n = 0 THEN { <<>> }
  ELSE LET shorter == Strings(n - 1)
       IN shorter \cup { Append(t, c) : t \in shorter, c \in Chars }

LexerInit ==
  /\ parent = <<>>
  /\ compiled = <<>>
  /\ subModules = <<>>
  /\ names = <<>>
  /\ exprs = <<>>
  /\ pc = "idle"
  /\ todo = <<>>
  /\ dependentExpressions = <<>>
  /\ resolvedExpressions = <<>>
  /\ j = 0
  /\ i = 0
  /\ madeProgress = FALSE
  /\ unresolvedCount = 0
  /\ passes = 0
  /\ outcome = <<>>
  /\ NoEval
  /\ NoContexts
  /\ NoCall
  /\ source \in Strings(MaxSource)
  /\ pos = 0
  /\ token = None
  /\ parseResult = None
  /\ result = None

LexerNext ==
  \/ nextToken
  \/ parseExpressionString

LexerSpec == LexerInit /\ [][LexerNext]_vars

(***************************************************************************)
(* C19.  nextToken() never fails: every call returns a token; a character  *)
(* the lexer does not recognise gives an UNKNOWN token of that one         *)
(* character, with the character's position and value 0, and moves the     *)
(* cursor past it; and once the cursor is at or past the end of the        *)
(* source, every call returns the EOF token and leaves the cursor.         *)
(***************************************************************************)
Recognised ==
  Digits \cup Letters \cup Whitespace \cup {"+", "-", "*", "/", "%", ".", "(", ")"}

TokenTypes ==
  { "NUMBER", "IDENTIFIER", "PLUS", "MINUS", "STAR", "SLASH", "PERCENT", "DOT",
    "LPAREN", "RPAREN", "UNKNOWN", "EOF" }

\* The first character at or after the cursor that is no whitespace, 0 for none.
RECURSIVE NextChar(_)
NextChar(p) ==
  IF p > Len(source) THEN 0
  ELSE IF source[p] \in Whitespace THEN NextChar(p + 1)
  ELSE p

C19_State ==
  /\ pos \in 0..Len(source)
  /\ token # None => token[1].type \in TokenTypes

C19_Step ==
  (token' # token \/ pos' # pos) =>
    /\ token' # None
    /\ pos >= Len(source) =>
         /\ token'[1] = Token("EOF", <<>>, pos, Zero)
         /\ pos' = pos
    /\ (NextChar(pos + 1) # 0 /\ source[NextChar(pos + 1)] \notin Recognised) =>
         /\ token'[1] = Token("UNKNOWN", << source[NextChar(pos + 1)] >>,
                              NextChar(pos + 1) - 1, Zero)
         /\ pos' = NextChar(pos + 1)
    /\ (token # None /\ token[1].type = "EOF") => token'[1] = token[1]

C19_NextTokenNeverFails == []C19_State /\ [][C19_Step]_vars

\* An UNKNOWN token was returned for the last character, then the cursor is at the end.
C19_Witness ==
  /\ Len(source) >= 2
  /\ pos = Len(source)
  /\ token # None
  /\ token[1].type = "UNKNOWN"
  /\ token[1].position = Len(source) - 1

(***************************************************************************)
(* C20.  A NUMBER token has digits on both sides of its dot, if it has     *)
(* one: '5.' is lexed as NUMBER(5) then DOT, '.5' as DOT then NUMBER(5),   *)
(* and parseExpression rejects both, as every source in which a NUMBER     *)
(* token stands next to a DOT token.                                       *)
(***************************************************************************)
WellFormedNumber(lexeme) ==
  /\ lexeme # <<>>
  /\ \A k \in 1..Len(lexeme) : lexeme[k] \in Digits \cup {"."}
  /\ Cardinality({ k \in 1..Len(lexeme) : lexeme[k] = "." }) <= 1
  /\ lexeme[1] \in Digits
  /\ lexeme[Len(lexeme)] \in Digits

NumberNextToDot(toks) ==
  \E k \in 1..(Len(toks) - 1) :
    { toks[k].type, toks[k + 1].type } = { "NUMBER", "DOT" }

C20_State ==
  /\ (token # None /\ token[1].type = "NUMBER") => WellFormedNumber(token[1].lexeme)
  /\ source = << "5", "." >> =>
       /\ pos = 1 => token = Some(Token("NUMBER", << "5" >>, 0, Rational(5, 1)))
       /\ pos = 2 => token \in { Some(Token("DOT", << "." >>, 1, Zero)),
                                 Some(Token("EOF", <<>>, 2, Zero)) }
  /\ source = << ".", "5" >> =>
       /\ pos = 1 => token = Some(Token("DOT", << "." >>, 0, Zero))
       /\ pos = 2 => token \in { Some(Token("NUMBER", << "5" >>, 1, Rational(5, 1))),
                                 Some(Token("EOF", <<>>, 2, Zero)) }
  /\ (parseResult # None /\ NumberNextToDot(tokens(source))) => ~parseResult[1].ok

C20_Step ==
  (pos' # pos /\ source \in { << "5", "." >>, << ".", "5" >> }) => pos' = pos + 1

C20_NumberNeedsDigitsAroundDot == []C20_State /\ [][C20_Step]_vars

\* '5.' has been lexed up to its DOT and parseExpression has rejected it.
C20_Witness ==
  /\ source = << "5", "." >>
  /\ token = Some(Token("DOT", << "." >>, 1, Zero))
  /\ parseResult # None
  /\ ~parseResult[1].ok

(***************************************************************************)
(* C21.  parseExpression succeeds only if every token up to EOF is         *)
(* consumed: when a token other than EOF is left after a complete additive *)
(* expression it fails with 'Unexpected token' at the position of that     *)
(* token; and a failure produces no UnboundExpression.                     *)
(***************************************************************************)
C21_State ==
  parseResult # None =>
    LET r == parseResult[1]
        toks == tokens(source)
        a == parseAdditive(toks, 1)
    IN /\ r.ok => /\ r.k = Len(toks)
                  /\ toks[r.k].type = "EOF"
                  /\ r.node # None
       /\ ~r.ok => r.node = None
       /\ (a.ok /\ toks[a.k].type # "EOF") =>
            r = Thrown(ErrUnexpectedToken, toks[a.k].position)
       /\ source = << "5", " ", "5" >> => r = Thrown(ErrUnexpectedToken, 2)

C21_WholeInputConsumed == []C21_State

\* '5 5' has been rejected at its second number.
C21_Witness ==
  /\ source = << "5", " ", "5" >>
  /\ parseResult = Some(Thrown(ErrUnexpectedToken, 2))

(***************************************************************************)
(* C22.  An invalid primary makes parseExpression fail with the positioned *)
(* "Expected number, identifier, or '('" error: a source that begins with  *)
(* a character the lexer does not know fails with it at that character,    *)
(* and a source with more '(' than ')' fails with it.                      *)
(***************************************************************************)
Occurrences(c) == Cardinality({ k \in 1..Len(source) : source[k] = c })

C22_InvalidPrimaryRejected ==
  parseResult # None =>
    /\ (NextChar(1) # 0 /\ source[NextChar(1)] \notin Recognised) =>
         parseResult[1] = Thrown(ErrExpectedPrimary, NextChar(1) - 1)
    /\ Occurrences("(") > Occurrences(")") =>
         /\ ~parseResult[1].ok
         /\ parseResult[1].error = ErrExpectedPrimary

(***************************************************************************)
(* The specification of arithmetic: any source over two digits, the        *)
(* operators + - * % and parentheses is parsed, bound, resolved and        *)
(* evaluated.                                                              *)
(***************************************************************************)
ArithChars == { "2", "3", "+", "-", "*", "%", "(", ")" }

RECURSIVE Formulas(_)
Formulas(n) ==
  IF n = 0 THEN { <<>> }
  ELSE LET shorter == Formulas(n - 1)
       IN shorter \cup { Append(t, c) : t \in shorter, c \in ArithChars }

ArithInit ==
  /\ parent = <<>>
  /\ compiled = <<>>
  /\ subModules = <<>>
  /\ names = <<>>
  /\ exprs = <<>>
  /\ pc = "idle"
  /\ todo = <<>>
  /\ dependentExpressions = <<>>
  /\ resolvedExpressions = <<>>
  /\ j = 0
  /\ i = 0
  /\ madeProgress = FALSE
  /\ unresolvedCount = 0
  /\ passes = 0
  /\ outcome = <<>>
  /\ NoEval
  /\ NoContexts
  /\ NoCall
  /\ source \in Formulas(MaxFormula)
  /\ pos = 0
  /\ token = None
  /\ parseResult = None
  /\ result = None

ArithNext == evalExpression

ArithSpec == ArithInit /\ [][ArithNext]_vars

(***************************************************************************)
(* C23.  For a source built from integer literals, + - * %, unary minus    *)
(* and parentheses, evaluate() after bind and resolve gives the value of   *)
(* the formula: the last + or - outside parentheses that has an operand on *)
(* its left splits the formula first (lowest precedence, left              *)
(* associative), then the last * or %, then a leading minus negates the    *)
(* rest, then parentheses are removed.                                     *)
(***************************************************************************)
Depth(s, k) ==
  Cardinality({ l \in 1..(k - 1) : s[l] = "(" }) - Cardinality({ l \in 1..(k - 1) : s[l] = ")" })

\* The operators of set ops outside parentheses with an operand on their left.
BinaryAt(s, ops) ==
  { k \in 2..Len(s) :
      /\ s[k] \in ops
      /\ Depth(s, k) = 0
      /\ s[k - 1] \in Digits \cup {")"} }

Last(S) == CHOOSE k \in S : \A l \in S : l <= k

IntRemainder(a, b) == Sign(a) * (Abs(a) % Abs(b))

\* The value of a well-formed formula, an integer, or None where a remainder by
\* zero leaves it without a value.
RECURSIVE FormulaValue(_)
FormulaValue(s) ==
  LET low == BinaryAt(s, {"+", "-"})
      high == BinaryAt(s, {"*", "%"})
      k == IF low # {} THEN Last(low) ELSE Last(high)
      l == FormulaValue(SubSeq(s, 1, k - 1))
      r == FormulaValue(SubSeq(s, k + 1, Len(s)))
  IN IF low # {} \/ high # {}
     THEN IF l = None \/ r = None THEN None
          ELSE CASE s[k] = "+" -> Some(l[1] + r[1])
                 [] s[k] = "-" -> Some(l[1] - r[1])
                 [] s[k] = "*" -> Some(l[1] * r[1])
                 [] s[k] = "%" -> IF r[1] = 0 THEN None ELSE Some(IntRemainder(l[1], r[1]))
     ELSE IF s[1] = "-"
     THEN LET v == FormulaValue(Tail(s))
          IN IF v = None THEN None ELSE Some(-v[1])
     ELSE IF s[1] = "("
     THEN FormulaValue(SubSeq(s, 2, Len(s) - 1))
     ELSE Some(Decimal(s))

C23_State ==
  (result # None /\ result[1].ok) =>
    /\ FormulaValue(source) # None => result[1].value = Rational(FormulaValue(source)[1], 1)
    /\ FormulaValue(source) = None => isNaN(result[1].value)

C23_ArithmeticValue == []C23_State

\* '3-2-2' has been evaluated to -1, not to 3.
C23_Witness ==
  /\ source = << "3", "-", "2", "-", "2" >>
  /\ result = Some(Evaluated(Rational(-1, 1)))

(***************************************************************************)
(* C24.  An expression none of whose dependency chains meets a cycle, and  *)
(* whose longest chain has D expressions, itself included, is resolved     *)
(* when pass D of resolveExpressions has ended, whatever the order of the  *)
(* list.                                                                   *)
(***************************************************************************)
CycleFree(e) == \A x \in {e} \cup ReachableFrom(e) : ~OnCycle(x)

RECURSIVE ChainLength(_)
ChainLength(e) ==
  IF DependsOn(e) = {} THEN 1
  ELSE LET lengths == { ChainLength(d) : d \in DependsOn(e) }
       IN 1 + (CHOOSE n \in lengths : \A l \in lengths : l <= n)

PassEnded(p) ==
  \/ passes > p
  \/ /\ passes = p
     /\ \/ pc \in {"loop", "idle"}
        \/ pc = "scan" /\ i = Len(dependentExpressions)

C24_ResolvedByPassD ==
  (compiled[1] /\ AllBound /\ pc # "bind") =>
    \A e \in Elements(dependentExpressions) :
      (CycleFree(e) /\ PassEnded(ChainLength(e))) => isResolved(e)

\* An expression with a chain of three, listed first, was resolved in pass three.
C24_Witness ==
  /\ pc = "scan"
  /\ passes = 3
  /\ i = 1
  /\ Len(dependentExpressions) = 3
  /\ CycleFree(dependentExpressions[1])
  /\ ChainLength(dependentExpressions[1]) = 3
  /\ isResolved(dependentExpressions[1])
  /\ Len(resolvedExpressions) = 3
  /\ resolvedExpressions[3] = dependentExpressions[1]

(***************************************************************************)
(* C25.  Within a pass the scan goes up the input list one index at a      *)
(* time and an expression it resolves is appended to the output at that    *)
(* moment, so the expressions resolved in one pass stand in the output in  *)
(* increasing input index; and when the input list is in dependency order  *)
(* everything resolves in the first pass and the output equals the input.  *)
(***************************************************************************)
InDependencyOrder ==
  \A k \in 1..Len(dependentExpressions) :
    DependsOn(dependentExpressions[k]) \subseteq
      { dependentExpressions[l] : l \in 1..(k - 1) }

C25_State ==
  (compiled[1] /\ AllBound /\ pc \in {"loop", "scan", "idle"} /\ InDependencyOrder) =>
    /\ passes <= 1
    /\ resolvedExpressions =
         SubSeq(dependentExpressions, 1, IF pc = "scan" THEN i ELSE Len(resolvedExpressions))
    /\ pc = "idle" => /\ outcome[1] = "returned"
                      /\ resolvedExpressions = dependentExpressions

C25_Step ==
  /\ (pc = "scan" /\ pc' = "scan") => i' = i + 1
  /\ (pc = "scan" /\ pc' # "scan") => i' = i
  /\ resolvedExpressions' # resolvedExpressions =>
       \/ pc = "bind" /\ resolvedExpressions' = <<>>
       \/ /\ pc = "scan"
          /\ i' = i + 1
          /\ resolvedExpressions' = Append(resolvedExpressions, dependentExpressions[i + 1])

C25_OutputInScanOrder == []C25_State /\ [][C25_Step]_vars

\* Three expressions in dependency order came out in one pass, in input order.
C25_Witness ==
  /\ pc = "idle"
  /\ outcome[1] = "returned"
  /\ passes = 1
  /\ Len(dependentExpressions) = 3
  /\ resolvedExpressions = dependentExpressions
  /\ \E e \in Exprs : DependsOn(e) # {}

(***************************************************************************)
(* Name lookup through scope chains: a root module with one submodule and  *)
(* a root binding context with one child context, in which expressions,    *)
(* mapped modules, symbols and subcontexts are registered.                 *)
(***************************************************************************)
MaxLookupRegistrations == 3

LookupNames == {"a", "s"}

LookupRegistrations ==
  Sum([m \in Modules |-> Len(names[m])], Modules)
  + Sum([c \in Contexts |->
           Cardinality({ nt \in LookupNames \X NameTypes : symbolsHas(c, nt[1], nt[2]) })
           + Cardinality(DOMAIN subcontexts_[c])],
        Contexts)

LookupInit ==
  /\ parent = << 0, 1 >>
  /\ compiled = << FALSE, FALSE >>
  /\ subModules = << << 2 >>, <<>> >>
  /\ names = << <<>>, <<>> >>
  /\ exprs = (<<0, "p">> :> UnboundExpression(parseExpression(<<>>)))
             @@ (<<0, "q">> :> UnboundExpression(createNativeExpression))
  /\ pc = "idle"
  /\ todo = <<>>
  /\ dependentExpressions = <<>>
  /\ resolvedExpressions = <<>>
  /\ j = 0
  /\ i = 0
  /\ madeProgress = FALSE
  /\ unresolvedCount = 0
  /\ passes = 0
  /\ outcome = << "open", "open" >>
  /\ NoEval
  /\ parent_ = << 0, 1 >>
  /\ symbols_ = << <<>>, <<>> >>
  /\ subcontexts_ = << <<>>, <<>> >>
  /\ NoLexer
  /\ NoCall

LookupNext ==
  \/ \E m \in Modules, name \in LookupNames :
       LookupRegistrations < MaxLookupRegistrations /\ addExpression(m, name, <<>>)
  \/ \E m \in Modules, name \in LookupNames, other \in Modules :
       LookupRegistrations < MaxLookupRegistrations /\ mapModule(m, name, other)
  \/ \E c \in Contexts, name \in LookupNames, type \in NameTypes, provider \in Providers :
       /\ LookupRegistrations < MaxLookupRegistrations
       /\ DefaultBindingContext_addExpression(c, name, type, provider)
  \/ \E c \in Contexts, name \in LookupNames, context \in Contexts :
       LookupRegistrations < MaxLookupRegistrations /\ addSubcontext(c, name, context)

LookupSpec == LookupInit /\ [][LookupNext]_vars

(***************************************************************************)
(* C26.  A single-part name resolves to the nearest definition on the      *)
(* parent chain: lookupName returns the provider registered locally under  *)
(* the requested type when there is one, otherwise what the parent's       *)
(* lookup of the same name returns, and fails with "Unresolved name" when  *)
(* no scope of the chain defines the name.  This holds for a binding       *)
(* context under every type and for a module under the type VALUE, the     *)
(* only type with which NameExpression.bind calls the module's lookup.     *)
(***************************************************************************)
RECURSIVE NearestContext(_, _, _)
NearestContext(c, name, type) ==
  IF symbolsHas(c, name, type) THEN c
  ELSE IF parent_[c] = 0 THEN 0
  ELSE NearestContext(parent_[c], name, type)

C26_SinglePartNearestScope ==
  /\ \A c \in Contexts, name \in LookupNames, type \in NameTypes :
       LET r == DefaultBindingContext_lookupName(c, << name >>, type)
           n == NearestContext(c, name, type)
       IN /\ n # 0 => r = Found(symbols_[n][name][type])
          /\ n = 0 => r = Failed(ErrUnresolvedName)
          /\ (~symbolsHas(c, name, type) /\ parent_[c] # 0) =>
               r = DefaultBindingContext_lookupName(parent_[c], << name >>, type)
  /\ \A m \in Modules, name \in LookupNames :
       LET r == lookupName(m, << name >>)
           n == Nearest(m, name)
       IN /\ n # 0 => r = Found(<< n, name >>)
          /\ n = 0 => r = Failed(ErrUnresolvedName)
          /\ (~Defines(m, name) /\ parent[m] # 0) => r = lookupName(parent[m], << name >>)

C26_Witness ==
  /\ symbolsHas(2, "a", "FUNCTION")
  /\ ~symbolsHas(2, "a", "VALUE")
  /\ symbolsHas(1, "a", "VALUE")
  /\ symbols_[1]["a"]["VALUE"] # symbols_[2]["a"]["FUNCTION"]
  /\ DefaultBindingContext_lookupName(2, << "a" >>, "VALUE") = Found(symbols_[1]["a"]["VALUE"])
  /\ DefaultBindingContext_lookupName(2, << "a" >>, "FUNCTION")
       = Found(symbols_[2]["a"]["FUNCTION"])
  /\ DefaultBindingContext_lookupName(1, << "s" >>, "VALUE") = Failed(ErrUnresolvedName)

(***************************************************************************)
(* C27.  A name of several parts whose head is a local subcontext (mapped  *)
(* module) resolves to exactly what that subcontext's lookup of the        *)
(* remaining parts returns, a failure included, whatever the parent would  *)
(* return; a head that is not local hands the full parts to the parent;    *)
(* and without a parent the lookup fails with "is not an object".          *)
(***************************************************************************)
MultiParts == UNION { [1..n -> LookupNames] : n \in 2..3 }

C27_MultiPartDelegation ==
  /\ \A c \in Contexts, parts \in MultiParts, type \in NameTypes :
       LET r == DefaultBindingContext_lookupName(c, parts, type)
           head == Head(parts)
       IN IF head \in DOMAIN subcontexts_[c]
          THEN r = DefaultBindingContext_lookupName(subcontexts_[c][head], Tail(parts), type)
          ELSE IF parent_[c] # 0
          THEN r = DefaultBindingContext_lookupName(parent_[c], parts, type)
          ELSE r = Failed(ErrNotAnObject)
  /\ \A m \in Modules, parts \in MultiParts :
       LET r == lookupName(m, parts)
           head == Head(parts)
       IN IF MapsTo(m, head) # 0
          THEN r = lookupName(MapsTo(m, head), Tail(parts))
          ELSE IF parent[m] # 0
          THEN r = lookupName(parent[m], parts)
          ELSE r = Failed(ErrNotAnObject)

C27_Witness ==
  /\ "s" \in DOMAIN subcontexts_[2]
  /\ subcontexts_[2]["s"] = 1
  /\ ~DefaultBindingContext_lookupName(2, << "s", "a" >>, "VALUE").ok
  /\ DefaultBindingContext_lookupName(2, << "s", "a" >>, "VALUE")
       = DefaultBindingContext_lookupName(1, << "a" >>, "VALUE")
  /\ DefaultBindingContext_lookupName(parent_[2], << "s", "a" >>, "VALUE").ok
  /\ DefaultBindingContext_lookupName(1, << "a", "s" >>, "VALUE") = Failed(ErrNotAnObject)

(***************************************************************************)
(* C28.  Every expression moves one way through unbound, bound, resolved;  *)
(* in every state exactly one of its wrappers holds the AST (root of the   *)
(* UnboundExpression, ast_ of the DependentExpression, or the Expression); *)
(* and every name reference in the AST is of the kind of that phase: a     *)
(* NameExpression while unbound, linked while bound, resolved at the end.  *)
(***************************************************************************)
Phase(x) ==
  IF x.expression_ # None THEN 3
  ELSE IF x.isBound THEN 2
  ELSE 1

Holders(x) ==
  { h \in 1..3 : << x.root, x.ast_, x.expression_ >>[h] # None }

HeldAst(x) == << x.root, x.ast_, x.expression_ >>[Phase(x)][1]

ReferenceKind == << "name", "linked", "resolved" >>

C28_State ==
  \A e \in Exprs :
    /\ Holders(exprs[e]) = { Phase(exprs[e]) }
    /\ \A k \in 1..Len(HeldAst(exprs[e])) :
         HeldAst(exprs[e])[k].kind \in {"name", "linked", "resolved"} =>
           HeldAst(exprs[e])[k].kind = ReferenceKind[Phase(exprs[e])]

C28_Step ==
  \A e \in Exprs : Phase(exprs'[e]) >= Phase(exprs[e])

C28_OneWayPhases == []C28_State /\ [][C28_Step]_vars

\* The claim apart from the case of a bind that has failed part-way.
C28_HolderAndDirection ==
  [](\A e \in Exprs : Holders(exprs[e]) = { Phase(exprs[e]) }) /\ [][C28_Step]_vars

(***************************************************************************)
(* C29.  While compile() is binding, no expression of the tree has a       *)
(* dependency list or a dereferenced link: bind only stores the accessor.  *)
(* The first discovery happens in a scan step of the resolver, when the    *)
(* bind list is empty and every expression of the tree is bound.           *)
(***************************************************************************)
Undiscovered(x) ==
  /\ x.dependencies_ = None
  /\ \A h \in Holders(x) :
       LET ast == << x.root, x.ast_, x.expression_ >>[h][1]
       IN \A k \in 1..Len(ast) : ast[k].linkedExpression_ = None

Tree(m) == { bindExpressions(m)[k].expr : k \in 1..Len(bindExpressions(m)) }

C29_State ==
  pc = "bind" => \A e \in Tree(Compiling) : Undiscovered(exprs[e])

C29_Step ==
  (\E e \in Exprs : Undiscovered(exprs[e]) /\ ~Undiscovered(exprs'[e])) =>
    /\ pc = "scan"
    /\ todo = <<>>
    /\ \A e \in Tree(Compiling) : exprs[e].isBound

C29_NoDiscoveryBeforeAllBound == []C29_State /\ [][C29_Step]_vars

C29_Witness ==
  /\ pc = "bind"
  /\ todo # <<>>
  /\ \E e \in Tree(Compiling) :
       /\ exprs[e].isBound
       /\ Undiscovered(exprs[e])
       /\ Owner(e) # Compiling
       /\ \E k \in 1..Len(exprs[e].ast_[1]) : exprs[e].ast_[1][k].kind = "linked"
  /\ \E e \in Tree(Compiling) :
       /\ exprs[e].isBound
       /\ \E k \in 1..Len(exprs[e].ast_[1]) :
            /\ exprs[e].ast_[1][k].kind = "linked"
            /\ ~exprs[exprs[e].ast_[1][k].link[1]].isBound

(***************************************************************************)
(* C30.  Binding does not dereference what it finds.  The bind of an       *)
(* expression whose AST is as parsed succeeds exactly when every name in   *)
(* it is defined on the scope chain, whether or not the expressions named  *)
(* are bound, and links each name to the nearest definition: a result      *)
(* fixed by the set of registered names alone, not by the order of         *)
(* registration or of binding.  Once every expression is bound, every      *)
(* link yields the bound expression registered under the name, the one     *)
(* its own bind produced, and no accessor throws.                          *)
(***************************************************************************)
AsParsed(ast) ==
  \A k \in 1..Len(ast) :
    /\ ast[k].kind \notin {"linked", "resolved"}
    /\ ast[k].kind = "name" => Len(ast[k].parts) = 1

LinkedToNearest(m, node) ==
  IF node.kind = "name"
  THEN LinkedNameExpression(<< Nearest(m, node.parts[1]), node.parts[1] >>)
  ELSE node

C30_State ==
  /\ \A e \in Exprs :
       (~exprs[e].isBound /\ AsParsed(exprs[e].root[1])) =>
         LET ast == exprs[e].root[1]
             defined == \A k \in 1..Len(ast) :
                          ast[k].kind = "name" => Nearest(Owner(e), ast[k].parts[1]) # 0
             b == bind(e, Owner(e))
         IN /\ b.ok <=> defined
            /\ b.ok => b.expr.ast_
                         = Some([k \in 1..Len(ast) |-> LinkedToNearest(Owner(e), ast[k])])
  /\ (\A e \in Exprs : exprs[e].isBound) =>
       \A e \in Exprs :
         ~isResolved(e) =>
           /\ ~linkThrows(e)
           /\ resolveError(e) # ErrNotYetBound
           /\ \A k \in 1..Len(exprs[e].ast_[1]) :
                LET n == exprs[e].ast_[1][k]
                IN n.kind = "linked" =>
                     /\ exprs[n.link[1]].isBound
                     /\ accessorError(n.link[1]) # ErrNotYetBound
                     /\ Defines(Owner(n.link[1]), n.link[1][2])
                     /\ n.linkedExpression_ # None => n.linkedExpression_ = n.link

C30_Step ==
  \A e \in Exprs :
    (~exprs[e].isBound /\ exprs'[e].isBound /\ AsParsed(exprs[e].root[1])) =>
      exprs'[e].ast_ = Some([k \in 1..Len(exprs[e].root[1]) |->
                               LinkedToNearest(Owner(e), exprs[e].root[1][k])])

C30_BindDoesNotDereference == []C30_State /\ [][C30_Step]_vars

C30_Witness ==
  \E e \in Exprs, t \in Exprs :
    /\ e # t
    /\ exprs[e].isBound
    /\ exprs[e].ast_ # None
    /\ ~exprs[t].isBound
    /\ \E k \in 1..Len(exprs[e].ast_[1]) :
         exprs[e].ast_[1][k] = LinkedNameExpression(t)
    /\ \E x, y \in 1..Len(names[Owner(e)]) :
         x < y /\ names[Owner(e)][x].value = e /\ names[Owner(e)][y].value = t

(***************************************************************************)
(* C31.  As stated: invoking a deferred accessor while the expression it   *)
(* refers to is unbound is not reported by the engine as an explicit       *)
(* failure: neither resolve() nor resolveExpressions ends with the         *)
(* engine's 'Expression not yet bound' error.                              *)
(***************************************************************************)
RefersToUnbound(e) ==
  /\ exprs[e].isBound
  /\ ~isResolved(e)
  /\ exprs[e].dependencies_ = None
  /\ \E k \in 1..Len(exprs[e].ast_[1]) :
       LET n == exprs[e].ast_[1][k]
       IN n.kind = "linked" /\ n.linkedExpression_ = None /\ ~exprs[n.link[1]].isBound

C31_EarlyAccessorNotExplicit ==
  /\ outcome[1] # ErrNotYetBound
  /\ \A e \in Exprs : RefersToUnbound(e) => resolveError(e) # ErrNotYetBound

(***************************************************************************)
(* C31, amended.  Nothing checks the order ahead of time: the resolver     *)
(* starts on any list of bound expressions.  But the violation is reported *)
(* explicitly: the accessor of an unbound expression throws 'Expression    *)
(* not yet bound', resolve() fails with that error, and the scan of        *)
(* resolveExpressions that reaches such an expression ends the call with   *)
(* it, the expression left unresolved with no dependency list and the      *)
(* output list as it was.                                                  *)
(***************************************************************************)
C31_State ==
  \A e \in Exprs :
    /\ ~exprs[e].isBound => accessorError(e) = ErrNotYetBound
    /\ RefersToUnbound(e) => resolveError(e) = ErrNotYetBound

C31_Step ==
  /\ (pc = "idle" /\ pc' = "loop") =>
       dependentExpressions' = argument'[1].items
  /\ (/\ pc = "scan"
      /\ i < Len(dependentExpressions)
      /\ RefersToUnbound(dependentExpressions[i + 1])) =>
       /\ pc' = "idle"
       /\ outcome'[1] = ErrNotYetBound
       /\ ~isResolved(dependentExpressions[i + 1])'
       /\ exprs'[dependentExpressions[i + 1]].dependencies_ = None
       /\ resolvedExpressions' = resolvedExpressions

C31_EarlyAccessorFailsExplicitly == []C31_State /\ [][C31_Step]_vars

C31_Witness ==
  /\ pc = "idle"
  /\ outcome[1] = ErrNotYetBound
  /\ argument # None
  /\ \E k \in 1..Len(dependentExpressions) : RefersToUnbound(dependentExpressions[k])

(***************************************************************************)
(* C32.  The references among resolved Expressions are acyclic.  An        *)
(* expression is resolved only when every expression it refers to is       *)
(* resolved already, itself excluded, so every resolved reference points   *)
(* to an Expression resolved strictly earlier; no resolved expression      *)
(* reaches itself, and the call tree of evaluate() on it has finite depth. *)
(***************************************************************************)
ResolvedReferences(e) ==
  { exprs[e].expression_[1][k].link[1] :
      k \in { l \in 1..Len(exprs[e].expression_[1]) :
                exprs[e].expression_[1][l].kind = "resolved" } }

RECURSIVE ReachesWithin(_, _, _)
ReachesWithin(e, target, n) ==
  /\ n > 0
  /\ \E d \in ResolvedReferences(e) :
       d = target \/ (isResolved(d) /\ ReachesWithin(d, target, n - 1))

RECURSIVE EvaluateDepth(_)
EvaluateDepth(e) ==
  LET below == { EvaluateDepth(d) : d \in ResolvedReferences(e) }
  IN IF below = {} THEN 1 ELSE 1 + (CHOOSE h \in below : \A g \in below : g <= h)

C32_State ==
  \A e \in Exprs :
    isResolved(e) =>
      /\ \A d \in ResolvedReferences(e) : isResolved(d)
      /\ ~ReachesWithin(e, e, Cardinality(Exprs))
      /\ EvaluateDepth(e) <= Cardinality(Exprs)

C32_Step ==
  \A e \in Exprs :
    (~isResolved(e) /\ isResolved(e)') =>
      \A d \in ResolvedReferences(e)' : d # e /\ isResolved(d)

C32_ResolvedReferencesAcyclic == []C32_State /\ [][C32_Step]_vars

C32_Witness ==
  /\ pc = "idle"
  /\ outcome[1] = "returned"
  /\ \E e \in Exprs :
       /\ isResolved(e)
       /\ ~ReachesWithin(e, e, Cardinality(Exprs))
       /\ EvaluateDepth(e) = 3
       /\ Cardinality(ResolvedReferences(e)) = 2

(***************************************************************************)
(* C33.  When resolveExpressions has failed with the circular-dependency   *)
(* error, the expressions of its input that are left unresolved are        *)
(* exactly those that lie on a dependency cycle or depend, directly or     *)
(* transitively, on an expression of a cycle; every other input            *)
(* expression is resolved.                                                 *)
(***************************************************************************)
ReachesCycle(e) == \E d \in {e} \cup ReachableFrom(e) : OnCycle(d)

C33_CircularLeavesOthersResolved ==
  (pc = "idle" /\ outcome[1] = ErrCircular) =>
    \A e \in Elements(dependentExpressions) : isResolved(e) <=> ~ReachesCycle(e)

(***************************************************************************)
(* C34.  compile() hands the resolver a set closed under dependencies:     *)
(* once every expression of the tree is bound, each dependency of an       *)
(* expression of the set is in the set.  So compile() ends with the        *)
(* circular-dependency error only if an expression of the tree lies on a   *)
(* cycle, and a tree whose names all resolve and that has no cycle         *)
(* compiles, every expression of it resolved.                              *)
(***************************************************************************)
Handed == Elements(dependentExpressions)

C34_ClosedSetCompiles ==
  /\ pc \in {"loop", "scan"} =>
       \A e \in Handed : exprs[e].isBound /\ DependsOn(e) \subseteq Handed
  /\ (pc = "idle" /\ outcome[1] = ErrCircular) =>
       \E e \in Handed : OnCycle(e)
  /\ (/\ pc = "idle"
      /\ compiled[1]
      /\ outcome[1] \notin {ErrUnresolvedName, ErrNotAnObject}
      /\ ~\E e \in Handed : OnCycle(e)) =>
       /\ outcome[1] = "returned"
       /\ \A e \in Handed : isResolved(e)

C34_Witness ==
  /\ pc = "idle"
  /\ outcome[1] = "returned"
  /\ \E e \in Handed, d \in Handed :
       /\ Owner(e) = 1
       /\ Owner(d) = 2
       /\ d \in DependsOn(e)
       /\ isResolved(e)
  /\ Cardinality(Handed) >= 2

(***************************************************************************)
(* C35.  resolveExpressions ends with the circular-dependency error only   *)
(* when an unresolved expression of its input lies on a dependency cycle;  *)
(* a cycle-free input with a dependency left out of the list does not end  *)
(* with that error.                                                        *)
(***************************************************************************)
C35_CircularOnlyOnCycle ==
  (pc = "idle" /\ outcome[1] = ErrCircular) =>
    \E e \in Handed : ~isResolved(e) /\ OnCycle(e)

(***************************************************************************)
(* The chain of calls of Module.lookupName(parts) on module m: the number  *)
(* of calls made, the first included, counted up to fuel calls; a chain    *)
(* still running after fuel calls gives fuel + 1.                          *)
(***************************************************************************)
\* lookupName that hands the full parts to the mapped module.
RECURSIVE lookupNameCallsKeepsParts(_, _, _)
lookupNameCallsKeepsParts(m, parts, fuel) ==
  LET head == Head(parts)
      rest == Tail(parts)
      has == namesHas(m, head)
  IN IF fuel = 0 THEN 1
     ELSE IF rest = <<>>
     THEN IF has /\ namesGet(m, head).type = "VALUE" THEN 1
          ELSE IF parent[m] # 0
               THEN 1 + lookupNameCallsKeepsParts(parent[m], parts, fuel - 1)
               ELSE 1
     ELSE IF has /\ namesGet(m, head).type = "OBJECT"
          THEN 1 + lookupNameCallsKeepsParts(namesGet(m, head).value, parts, fuel - 1)
          ELSE IF parent[m] # 0
               THEN 1 + lookupNameCallsKeepsParts(parent[m], parts, fuel - 1)
               ELSE 1

RECURSIVE lookupNameCalls(_, _, _)
lookupNameCalls(m, parts, fuel) ==
  LET head == Head(parts)
      rest == Tail(parts)
      has == namesHas(m, head)
  IN IF fuel = 0 THEN 1
     ELSE IF rest = <<>>
     THEN IF has /\ namesGet(m, head).type = "VALUE" THEN 1
          ELSE IF parent[m] # 0
               THEN 1 + lookupNameCalls(parent[m], parts, fuel - 1)
               ELSE 1
     ELSE IF has /\ namesGet(m, head).type = "OBJECT"
          THEN 1 + lookupNameCalls(namesGet(m, head).value, rest, fuel - 1)
          ELSE IF parent[m] # 0
               THEN 1 + lookupNameCalls(parent[m], parts, fuel - 1)
               ELSE 1

(***************************************************************************)
(* C36.  Module.lookupName terminates on every module tree and every name, *)
(* alias cycles included: a call on a name of n parts in a tree of k       *)
(* modules makes at most n * k calls, because each delegation either       *)
(* drops the first part or moves one module up the parent chain.           *)
(***************************************************************************)
AllParts == UNION { [1..n -> LookupNames] : n \in 1..3 }

CallBound(parts) == Len(parts) * Cardinality(Modules)

C36_LookupTerminates ==
  \A m \in Modules, parts \in AllParts :
    /\ lookupNameCalls(m, parts, CallBound(parts)) <= CallBound(parts)
    /\ lookupName(m, parts).ok \/ lookupName(m, parts).err \in {ErrUnresolvedName, ErrNotAnObject}

C36_Witness ==
  /\ MapsTo(1, "s") = 2
  /\ MapsTo(2, "s") = 1
  /\ lookupNameCalls(1, << "s", "s", "a" >>, 6) = 3
  /\ lookupName(1, << "s", "s", "a" >>) = Found(<< 1, "a" >>)
  /\ lookupNameCalls(2, << "s", "s", "s" >>, 6) = 4
  /\ lookupName(2, << "s", "s", "s" >>) = Failed(ErrUnresolvedName)

(***************************************************************************)
(* C37.  A bind() that fails leaves the UnboundExpression unbound and its  *)
(* AST as it was, so that a bind() of an unbound expression succeeds as    *)
(* soon as every name still to be looked up in it is defined.              *)
(***************************************************************************)
C37_State ==
  \A e \in Exprs :
    (/\ ~exprs[e].isBound
     /\ \A k \in 1..Len(exprs[e].root[1]) :
          LET n == exprs[e].root[1][k]
          IN n.kind = "name" => lookupName(Owner(e), n.parts).ok) =>
      bind(e, Owner(e)).ok

C37_Step ==
  \A e \in Exprs :
    (~exprs[e].isBound /\ ~exprs'[e].isBound) => exprs'[e].root = exprs[e].root

C37_FailedBindLeavesUnchanged == []C37_State /\ [][C37_Step]_vars

(***************************************************************************)
(* Module.addExpression(name, expression) on the text of the expression:   *)
(* the check of the module, the check of the name, parseExpression, and    *)
(* only then the entry in the name table.  The parsed tree is stored by    *)
(* its leaves, left to right.  result is the error of a call that threw,   *)
(* and None after a call that returned.                                    *)
(***************************************************************************)
RECURSIVE leaves(_)
leaves(node) ==
  IF node.kind = "number" THEN << NumberLiteral >>
  ELSE IF node.kind = "name" THEN << NameExpression(node.parts) >>
  ELSE IF node.kind = "unary" THEN leaves(node.operand_)
  ELSE leaves(node.left_) \o leaves(node.right_)

addExpressionStringError(m, name, expression) ==
  IF addExpressionError(m, name) # ErrNone THEN addExpressionError(m, name)
  ELSE IF Parser_parseExpression(tokens(expression)).ok THEN ErrNone
  ELSE Parser_parseExpression(tokens(expression)).error

\* addExpression that enters the name in the table before it parses the text.
addExpressionStringRegistersFirst(m, name, expression) ==
  /\ pc = "idle"
  /\ LET err == addExpressionStringError(m, name, expression)
         r == Parser_parseExpression(tokens(expression))
     IN IF addExpressionError(m, name) # ErrNone
        THEN /\ result' = Some(Failure(err))
             /\ UNCHANGED << names, exprs >>
        ELSE /\ result' = IF r.ok THEN None ELSE Some(Failure(err))
             /\ exprs' = exprs @@ (<< m, name >> :>
                           UnboundExpression(IF r.ok THEN leaves(r.node[1])
                                             ELSE << NumberLiteral >>))
             /\ names' = [names EXCEPT
                            ![m] = Append(@, NameEntry(name, "VALUE", << m, name >>))]
  /\ UNCHANGED << parent, compiled, subModules, pc, todo, resolverVars, outcome >>
  /\ UNCHANGED << evalVars, contextVars, callVars, source, pos, token, parseResult >>

addExpressionString(m, name, expression) ==
  /\ pc = "idle"
  /\ LET err == addExpressionStringError(m, name, expression)
         r == Parser_parseExpression(tokens(expression))
     IN IF err # ErrNone
        THEN /\ result' = Some(Failure(err))
             /\ UNCHANGED << names, exprs >>
        ELSE /\ result' = None
             /\ exprs' = exprs @@ (<< m, name >> :> UnboundExpression(leaves(r.node[1])))
             /\ names' = [names EXCEPT
                            ![m] = Append(@, NameEntry(name, "VALUE", << m, name >>))]
  /\ UNCHANGED << parent, compiled, subModules, pc, todo, resolverVars, outcome >>
  /\ UNCHANGED << evalVars, contextVars, callVars, source, pos, token, parseResult >>

(***************************************************************************)
(* The specification of registration from text: one root module, names     *)
(* registered with any text of up to MaxText characters.                   *)
(***************************************************************************)
SourceChars == { "5", "x", "_", "+", "(" }

SourceNames == {"a", "b"}

Sources == { t \in Strings(MaxText) : \A k \in 1..Len(t) : t[k] \in SourceChars }

SourceInit == LifeInit

SourceNext ==
  \E name \in SourceNames, expression \in Sources : addExpressionString(1, name, expression)

SourceSpec == SourceInit /\ [][SourceNext]_vars

(***************************************************************************)
(* C38.  A failing addExpression leaves the name table and the registered  *)
(* expressions as they were.  So a name that is not registered, whatever   *)
(* calls have failed on it, can be registered with a valid text, and a     *)
(* registered name keeps its one entry: every further addExpression on it  *)
(* fails with the duplicate-name error.                                    *)
(***************************************************************************)
SyntaxErrors ==
  { ErrUnexpectedToken, ErrExpectedPrimary, ErrExpectedIdentifier, ErrExpectedRParen }

C38_State ==
  \A name \in SourceNames :
    IF namesHas(1, name)
    THEN /\ << 1, name >> \in Exprs
         /\ Cardinality({ k \in 1..Len(names[1]) : names[1][k].name = name }) = 1
         /\ \A expression \in Sources :
              addExpressionStringError(1, name, expression) = ErrNameExists
    ELSE /\ << 1, name >> \notin Exprs
         /\ addExpressionStringError(1, name, << "5" >>) = ErrNone
         /\ addExpressionStringError(1, name, << "(", "5" >>) \in SyntaxErrors

C38_Step ==
  result' # None => (names' = names /\ exprs' = exprs)

C38_FailedAddLeavesTable == []C38_State /\ [][C38_Step]_vars

C38_Witness ==
  /\ result # None
  /\ result[1].error \in SyntaxErrors
  /\ namesHas(1, "a")
  /\ ~namesHas(1, "b")
  /\ exprs[<< 1, "a" >>].root[1][1].kind = "name"

(***************************************************************************)
(* A call of compile() on any module, the calls that throw included: the   *)
(* two checks come before the assignment of the flag; a call that throws   *)
(* on them leaves its error in result.                                     *)
(***************************************************************************)
\* compile() that sets the flag before its check of the parent.
compileCallFlagFirst(m) ==
  \/ compile(m)
  \/ /\ pc = "idle"
     /\ compileError(m) # ErrNone
     /\ result' = Some(Failure(compileError(m)))
     /\ compiled' = [compiled EXCEPT ![m] = TRUE]
     /\ UNCHANGED << parent, subModules, names, exprs, pc, todo, resolverVars, outcome >>
     /\ UNCHANGED << evalVars, contextVars, callVars, source, pos, token, parseResult >>

compileCall(m) ==
  \/ compile(m)
  \/ /\ pc = "idle"
     /\ compileError(m) # ErrNone
     /\ result' = Some(Failure(compileError(m)))
     /\ UNCHANGED << moduleVars, exprs, pc, todo, resolverVars, outcome >>
     /\ UNCHANGED << evalVars, contextVars, callVars, source, pos, token, parseResult >>

(***************************************************************************)
(* The specification of compile() calls on a tree: a root and a submodule, *)
(* up to MaxTreeExprs expressions, compile() called on either module at    *)
(* any time.                                                               *)
(***************************************************************************)
TreeInit == AliasInit

TreeNext ==
  \/ \E m \in Modules, name \in Names, text \in ScopeTexts :
       Cardinality(Exprs) < MaxTreeExprs /\ addExpression(m, name, text)
  \/ \E m \in Modules : compileCall(m)
  \/ bindStep
  \/ loopHead
  \/ scanStep
  \/ passEnd

TreeSpec == TreeInit /\ [][TreeNext]_vars

(***************************************************************************)
(* C39.  compile() on a module that has a parent fails and changes no      *)
(* module: no flag, name table or submodule list changes in the call, a    *)
(* module with a parent is never compiled, and a root on which compile()   *)
(* has not been called can be compiled and extended whatever calls have    *)
(* failed on its submodules.                                               *)
(***************************************************************************)
C39_State ==
  /\ \A m \in Modules : parent[m] # 0 => ~compiled[m] /\ outcome[m] = "open"
  /\ \A m \in Modules :
       (parent[m] = 0 /\ outcome[m] = "open") =>
         /\ ~compiled[m]
         /\ compileError(m) = ErrNone
         /\ addSubModuleError(m) = ErrNone
         /\ \A name \in Names : ~namesHas(m, name) => addExpressionError(m, name) = ErrNone

C39_Step ==
  (result' # result /\ result' = Some(Failure(ErrOnlyRoot))) =>
    /\ compiled' = compiled
    /\ names' = names
    /\ subModules' = subModules
    /\ parent' = parent
    /\ exprs' = exprs
    /\ outcome' = outcome
    /\ pc' = pc

C39_NonRootCompileChangesNothing == []C39_State /\ [][C39_Step]_vars

C39_Witness ==
  /\ result = Some(Failure(ErrOnlyRoot))
  /\ pc = "idle"
  /\ outcome = << "open", "open" >>
  /\ compiled = << FALSE, FALSE >>
  /\ compileError(1) = ErrNone
  /\ compileError(2) = ErrOnlyRoot
  /\ Cardinality(Exprs) = 1

(***************************************************************************)
(* C40.  A lookup of alias.x in a module that maps K under alias gives     *)
(* what K's own scope chain gives for x: the expression of the nearest     *)
(* definition of x in K or in an ancestor of K, and 'Unresolved name'      *)
(* when there is none, whatever the module that declares the alias, or an  *)
(* ancestor of it, defines under x.                                        *)
(***************************************************************************)
C40_AliasUsesTargetScope ==
  \A m \in Modules, alias \in LookupNames, x \in LookupNames :
    MapsTo(m, alias) # 0 =>
      LET K == MapsTo(m, alias)
          r == lookupName(m, << alias, x >>)
      IN IF Nearest(K, x) # 0
         THEN r = Found(<< Nearest(K, x), x >>)
         ELSE r = Failed(ErrUnresolvedName)

C40_Witness ==
  /\ MapsTo(2, "s") = 1
  /\ Defines(2, "a")
  /\ ~Defines(1, "a")
  /\ Defines(1, "s")
  /\ lookupName(2, << "a" >>) = Found(<< 2, "a" >>)
  /\ lookupName(2, << "s", "a" >>) = Failed(ErrUnresolvedName)
  /\ lookupName(2, << "s", "s" >>) = Found(<< 1, "s" >>)

====
